---------------------------- MODULE Spec2Model ----------------------------
(***************************************************************************)
(* Client-side behaviour layer of the portfolio page (src/script.js).      *)
(*                                                                         *)
(* The page is a set of event handlers over the DOM and the browser's      *)
(* localStorage.  Every handler runs to completion, so every handler is    *)
(* one action; the asynchronous submit handler is two (the part before     *)
(* its await and the part after it).  Time is the wall clock in            *)
(* milliseconds; a timer callback runs at its due time, before any other   *)
(* event handled at or after that instant.                                 *)
(*                                                                         *)
(* Text is modelled as a sequence of one-character strings so that         *)
(* toLowerCase, trim, includes, parseInt and String(n) are computed.       *)
(* All DOM elements the script looks up are present in the page.           *)
(***************************************************************************)
EXTENDS Integers, Sequences, FiniteSets, TLC

(***************************************************************************)
(* Bounds of the model.                                                    *)
(***************************************************************************)
MaxLoads == 11
MaxTicks == 2
MaxReloads == 2

(***************************************************************************)
(* Values.                                                                 *)
(***************************************************************************)
\* A value that may be missing is a sequence of length at most one: null
\* (getItem of a missing key) and NaN are the empty one.
Null == <<>>
Some(v) == <<v>>
Get(x) == x[1]
NaN == <<>>
Num(n) == <<n>>

Digits == <<"0", "1", "2", "3", "4", "5", "6", "7", "8", "9">>

IsDigit(c) == \E i \in 1..10 : Digits[i] = c

DigitVal(c) == (CHOOSE i \in 1..10 : Digits[i] = c) - 1

Whitespace == {" ", "\t", "\n"}

\* String(n) for a number n: decimal digits, or "NaN".
RECURSIVE NatToStr(_)
NatToStr(n) == IF n < 0 THEN <<"-">> \o NatToStr(0 - n)
               ELSE IF n < 10 THEN <<Digits[n + 1]>>
               ELSE Append(NatToStr(n \div 10), Digits[(n % 10) + 1])

NumToStr(x) == IF x = NaN THEN <<"N", "a", "N">> ELSE NatToStr(Get(x))

\* parseInt(s): leading whitespace skipped, an optional sign, then the
\* longest run of digits;
\* NaN when there is none.
RECURSIVE SkipSpace(_)
SkipSpace(s) == IF s # <<>> /\ Head(s) \in Whitespace THEN SkipSpace(Tail(s)) ELSE s

RECURSIVE ParseDigits(_, _, _)
ParseDigits(s, acc, seen) ==
    IF s # <<>> /\ IsDigit(Head(s))
    THEN ParseDigits(Tail(s), acc * 10 + DigitVal(Head(s)), TRUE)
    ELSE IF seen THEN Num(acc) ELSE NaN

ParseInt(s) ==
    LET r    == SkipSpace(s)
        sign == r # <<>> /\ Head(r) \in {"+", "-"}
        v    == ParseDigits(IF sign THEN Tail(r) ELSE r, 0, FALSE)
    IN  IF v = NaN THEN NaN
        ELSE IF sign /\ Head(r) = "-" THEN Num(0 - Get(v)) ELSE v

(***************************************************************************)
(* Text: a sequence of characters, each a string naming one character      *)
(* ("a", " ", "oacute" for the accented letters of the project data).      *)
(***************************************************************************)
UpperCase == <<"A", "B", "C", "D", "E", "F", "G", "H", "I", "J", "K", "L", "M",
               "N", "O", "P", "Q", "R", "S", "T", "U", "V", "W", "X", "Y", "Z",
               "Aacute", "Oacute", "Ccedil">>
LowerCase == <<"a", "b", "c", "d", "e", "f", "g", "h", "i", "j", "k", "l", "m",
               "n", "o", "p", "q", "r", "s", "t", "u", "v", "w", "x", "y", "z",
               "aacute", "oacute", "ccedil">>

ToLowerChar(c) ==
    IF \E i \in 1..Len(UpperCase) : UpperCase[i] = c
    THEN LowerCase[CHOOSE i \in 1..Len(UpperCase) : UpperCase[i] = c]
    ELSE c

\* String.prototype.toLowerCase
ToLowerCase(s) == [i \in 1..Len(s) |-> ToLowerChar(s[i])]

RECURSIVE TrimEnd(_)
TrimEnd(s) == IF s # <<>> /\ s[Len(s)] \in Whitespace
              THEN TrimEnd(SubSeq(s, 1, Len(s) - 1)) ELSE s

\* String.prototype.trim
Trim(s) == TrimEnd(SkipSpace(s))

RECURSIVE StartsWith(_, _)
StartsWith(s, t) ==
    \/ t = <<>>
    \/ /\ s # <<>>
       /\ Head(s) = Head(t)
       /\ StartsWith(Tail(s), Tail(t))

\* String.prototype.includes
RECURSIVE Includes(_, _)
Includes(s, t) ==
    \/ StartsWith(s, t)
    \/ /\ s # <<>>
       /\ Includes(Tail(s), t)

\* A JavaScript string in a boolean position: null and '' are falsy.
Truthy(s) == s # Null /\ Get(s) # <<>>

(***************************************************************************)
(* State.                                                                  *)
(***************************************************************************)
VARIABLES
    now,            \* wall clock, milliseconds (new Date(), Date.now())
    ticks,          \* number of clock advances so far (bounds the model)
    loads,          \* number of page loads so far (bounds the model)
    ev,             \* name of the handler that ran last
    lsVisitCount,   \* localStorage 'visitCount': Null or text
    lsLastVisit,    \* localStorage 'lastVisit': Null or the instant its ISO text denotes
    visitCountEl,   \* textContent of #visit-count
    lastVisitEl,    \* textContent of #last-visit
    alerts,         \* number of alert() boxes shown so far
    lsTheme,        \* localStorage 'theme': Null or text
    darkMode,       \* document.body has the class 'dark-mode'
    prefersDark,    \* matchMedia('(prefers-color-scheme: dark)').matches
    lsClockFormat,  \* localStorage 'clockFormat': Null or text
    is24Hour,       \* the variable is24Hour of the page
    hoursEl,        \* textContent of #hours
    minutesEl,      \* textContent of #minutes
    secondsEl,      \* textContent of #seconds
    clockDue,       \* the instant the interval of startClock calls updateClock next
    tabPc,          \* of each of two tabs: the store access it is in or has made ("idle": none)
    tabRead         \* of each of two tabs: what its last getItem returned

visitVars == <<lsVisitCount, lsLastVisit, visitCountEl, lastVisitEl>>
themeVars == <<lsTheme, darkMode, prefersDark>>
clockVars == <<lsClockFormat, is24Hour, hoursEl, minutesEl, secondsEl, clockDue>>
tabVars   == <<tabPc, tabRead>>

Tabs == {1, 2}

ConfirmIgnored(answer) == TRUE

\* window.confirm(...): the user's answer, which the handler acts on.
Confirm(answer) == answer

(***************************************************************************)
(* Theme.                                                                  *)
(***************************************************************************)
\* toggleTheme(): the body's dark-mode flag and the stored theme after it.
ToggleTheme(dark, saved) ==
    LET isDark == ~dark
    IN  [darkMode |-> isDark,
         theme    |-> Some(IF isDark THEN "dark" ELSE "light")]

\* The first loadSavedTheme of the legacy fragment: no system fallback.
LoadSavedThemeLegacy(dark, saved, systemDark) ==
    IF saved # Null /\ Get(saved) = "dark" THEN TRUE ELSE dark

\* loadSavedTheme() on a body whose dark-mode flag is dark: the flag after it.
LoadSavedTheme(dark, saved, systemDark) ==
    IF saved # Null /\ Get(saved) # ""
    THEN IF Get(saved) = "dark" THEN TRUE ELSE dark
    ELSE IF systemDark THEN TRUE ELSE dark

(***************************************************************************)
(* Clock.  A Date is taken in a zone without offset; the date text of      *)
(* #date is not modelled.                                                   *)
(***************************************************************************)
Second == 1000
Minute == 60 * Second
Hour == 60 * Minute
Day == 24 * Hour

\* now.getHours(), now.getMinutes(), now.getSeconds() of the Date of instant t.
GetHours(t) == (t \div Hour) % 24
GetMinutes(t) == (t \div Minute) % 60
GetSeconds(t) == (t \div Second) % 60

\* s.padStart(n, c)
RECURSIVE PadStart(_, _, _)
PadStart(s, n, c) == IF Len(s) >= n THEN s ELSE PadStart(<<c>> \o s, n, c)

ClockHoursMod(hours, is24) == IF ~is24 THEN hours % 12 ELSE hours

\* if (!is24Hour) hours = hours % 12 || 12
ClockHours(hours, is24) ==
    IF ~is24 THEN (IF hours % 12 # 0 THEN hours % 12 ELSE 12) ELSE hours

\* updateClock() at instant t: the texts of #hours, #minutes and #seconds.
UpdateClock(t, is24) ==
    [hours   |-> PadStart(NatToStr(ClockHours(GetHours(t), is24)), 2, "0"),
     minutes |-> PadStart(NatToStr(GetMinutes(t)), 2, "0"),
     seconds |-> PadStart(NatToStr(GetSeconds(t)), 2, "0")]

\* The delay of the interval of startClock.
ClockPeriod == 1000

ToggleFormatOldText(is24) ==
    [is24Hour |-> ~is24,
     clockFormat |-> Some(IF is24 THEN <<"2", "4">> ELSE <<"1", "2">>)]

\* toggleFormat(): the variable and the stored text after it.
ToggleFormat(is24) ==
    [is24Hour |-> ~is24,
     clockFormat |-> Some(IF ~is24 THEN <<"2", "4">> ELSE <<"1", "2">>)]

\* loadClockFormat(): the variable after it.
LoadClockFormat(is24, saved) ==
    IF Truthy(saved) THEN Get(saved) = <<"2", "4">> ELSE is24

(***************************************************************************)
(* Visit counter.                                                          *)
(***************************************************************************)
GetVisitCount(count) == IF Truthy(count) THEN ParseInt(Get(count)) ELSE Num(0)

\* count++ and the two setItem calls; the result is the store after the call.
IncrementVisitCountDec(count, t) ==
    LET c == GetVisitCount(count)
        n == IF c = NaN THEN NaN ELSE Num(Get(c) - 1)
    IN  [visitCount |-> Some(NumToStr(n)), lastVisit |-> Some(t), ret |-> n]

IncrementVisitCount(count, t) ==
    LET c == GetVisitCount(count)
        n == IF c = NaN THEN NaN ELSE Num(Get(c) + 1)
    IN  [visitCount |-> Some(NumToStr(n)), lastVisit |-> Some(t), ret |-> n]

FirstVisitMsg == [text |-> "Primeira vez aqui!", n |-> 0, unit |-> "", suffix |-> ""]
LessThanMinuteMsg == [text |-> "Ha menos de 1 minuto", n |-> 0, unit |-> "", suffix |-> ""]

\* `Ha ${n} ${unit}${n > 1 ? 's' : ''}`
Elapsed(n, unit) == [text |-> "Ha", n |-> n, unit |-> unit,
                     suffix |-> IF n > 1 THEN "s" ELSE ""]

Ceiling(a, b) == (a + b - 1) \div b

\* Math.floor(a / b) for b > 0 (a may be negative).
Floor(a, b) == a \div b

FormatLastVisit(lastVisitISO, t) ==
    IF lastVisitISO = Null THEN FirstVisitMsg
    ELSE LET diff    == t - Get(lastVisitISO)
             minutes == Floor(Floor(diff, 1000), 60)
             hours   == Floor(minutes, 60)
             days    == Floor(hours, 24)
         IN  IF minutes < 1 THEN LessThanMinuteMsg
             ELSE IF minutes < 60 THEN Elapsed(minutes, "minuto")
             ELSE IF hours < 24 THEN Elapsed(hours, "hora")
             ELSE Elapsed(days, "dia")

UpdateVisitDisplayRaw(count) == IF count = Null THEN <<>> ELSE Get(count)

UpdateVisitDisplay(count) == NumToStr(GetVisitCount(count))

UpdateLastVisitDisplay(lastVisitISO, t) == FormatLastVisit(lastVisitISO, t)

\* The three steps of initVisitCounter; the result is the store and the
\* two display regions after it.
InitVisitCounterSwapped(count, lastVisitISO, t) ==
    LET inc == IncrementVisitCount(count, t)
    IN  [visitCount  |-> inc.visitCount,
         lastVisit   |-> inc.lastVisit,
         lastVisitEl |-> UpdateLastVisitDisplay(inc.lastVisit, t),
         visitCountEl |-> UpdateVisitDisplay(inc.visitCount)]

InitVisitCounterTwice(count, lastVisitISO, t) ==
    LET shown == UpdateLastVisitDisplay(lastVisitISO, t)
        inc   == IncrementVisitCount(IncrementVisitCount(count, t).visitCount, t)
    IN  [visitCount  |-> inc.visitCount,
         lastVisit   |-> inc.lastVisit,
         lastVisitEl |-> shown,
         visitCountEl |-> UpdateVisitDisplay(inc.visitCount)]

InitVisitCounter(count, lastVisitISO, t) ==
    LET shown == UpdateLastVisitDisplay(lastVisitISO, t)
        inc   == IncrementVisitCount(count, t)
    IN  [visitCount  |-> inc.visitCount,
         lastVisit   |-> inc.lastVisit,
         lastVisitEl |-> shown,
         visitCountEl |-> UpdateVisitDisplay(inc.visitCount)]

StartVisitCounter ==
    LET r == InitVisitCounter(lsVisitCount, lsLastVisit, now)
    IN  /\ lsVisitCount' = r.visitCount
        /\ lsLastVisit'  = r.lastVisit
        /\ lastVisitEl'  = r.lastVisitEl
        /\ visitCountEl' = r.visitCountEl

(***************************************************************************)
(* Gallery: the static project list (the fields the gallery reads).        *)
(***************************************************************************)
Project1 ==
    [id |-> 1,
     title |-> <<"E", "-", "c", "o", "m", "m", "e", "r", "c", "e", " ", "W", "e", "b", "s", "i", "t", "e">>,
     category |-> "web",
     description |->
        <<"L", "o", "j", "a", " ", "o", "n", "l", "i", "n", "e", " ", "c", "o", "m", "p", "l", "e", "t", "a", " ", "c", "o", "m", " ", "c", "a", "r", "r", "i", "n", "h", "o", " ", "d", "e", " ", "c", "o", "m", "p", "r", "a", "s">>,
     tags |-> <<<<"H", "T", "M", "L">>,
              <<"C", "S", "S">>,
              <<"J", "a", "v", "a", "S", "c", "r", "i", "p", "t">>,
              <<"A", "P", "I">>>>]

Project2 ==
    [id |-> 2,
     title |-> <<"A", "p", "p", " ", "d", "e", " ", "T", "a", "r", "e", "f", "a", "s">>,
     category |-> "web",
     description |->
        <<"G", "e", "s", "t", "o", "r", " ", "d", "e", " ", "t", "a", "r", "e", "f", "a", "s", " ", "c", "o", "m", " ", "f", "i", "l", "t", "r", "o", "s", " ", "e", " ", "c", "a", "t", "e", "g", "o", "r", "i", "a", "s">>,
     tags |-> <<<<"J", "a", "v", "a", "S", "c", "r", "i", "p", "t">>,
              <<"C", "S", "S">>,
              <<"L", "o", "c", "a", "l", "S", "t", "o", "r", "a", "g", "e">>>>]

Project3 ==
    [id |-> 3,
     title |-> <<"P", "o", "r", "t", "f", "o", "l", "i", "o", " ", "D", "e", "s", "i", "g", "n", "e", "r">>,
     category |-> "design",
     description |->
        <<"P", "o", "r", "t", "f", "o", "l", "i", "o", " ", "c", "r", "i", "a", "t", "i", "v", "o", " ", "p", "a", "r", "a", " ", "d", "e", "s", "i", "g", "n", "e", "r", " ", "g", "r", "aacute", "f", "i", "c", "o">>,
     tags |-> <<<<"F", "i", "g", "m", "a">>,
              <<"U", "I", "/", "U", "X">>,
              <<"P", "r", "o", "t", "oacute", "t", "i", "p", "o">>>>]

Project4 ==
    [id |-> 4,
     title |-> <<"A", "p", "p", " ", "M", "e", "t", "e", "o", "r", "o", "l", "o", "g", "i", "a">>,
     category |-> "mobile",
     description |->
        <<"A", "p", "p", " ", "m", "o", "b", "i", "l", "e", " ", "p", "a", "r", "a", " ", "c", "o", "n", "s", "u", "l", "t", "a", "r", " ", "p", "r", "e", "v", "i", "s", "atilde", "o", " ", "d", "o", " ", "t", "e", "m", "p", "o">>,
     tags |-> <<<<"R", "e", "a", "c", "t", " ", "N", "a", "t", "i", "v", "e">>,
              <<"A", "P", "I">>,
              <<"M", "o", "b", "i", "l", "e">>>>]

Project5 ==
    [id |-> 5,
     title |-> <<"D", "a", "s", "h", "b", "o", "a", "r", "d", " ", "A", "n", "a", "l", "y", "t", "i", "c", "s">>,
     category |-> "web",
     description |->
        <<"D", "a", "s", "h", "b", "o", "a", "r", "d", " ", "c", "o", "m", " ", "g", "r", "aacute", "f", "i", "c", "o", "s", " ", "e", " ", "e", "s", "t", "a", "t", "iacute", "s", "t", "i", "c", "a", "s">>,
     tags |-> <<<<"J", "a", "v", "a", "S", "c", "r", "i", "p", "t">>,
              <<"C", "h", "a", "r", "t", ".", "j", "s">>,
              <<"A", "P", "I">>>>]

Project6 ==
    [id |-> 6,
     title |-> <<"R", "e", "d", "e", "s", "i", "g", "n", " ", "L", "o", "g", "o", " ", "E", "m", "p", "r", "e", "s", "a">>,
     category |-> "design",
     description |->
        <<"R", "e", "d", "e", "s", "i", "g", "n", " ", "d", "e", " ", "i", "d", "e", "n", "t", "i", "d", "a", "d", "e", " ", "v", "i", "s", "u", "a", "l", " ", "c", "o", "r", "p", "o", "r", "a", "t", "i", "v", "a">>,
     tags |-> <<<<"I", "l", "l", "u", "s", "t", "r", "a", "t", "o", "r">>,
              <<"B", "r", "a", "n", "d", "i", "n", "g">>,
              <<"L", "o", "g", "o">>>>]

projects == <<Project1, Project2, Project3, Project4, Project5, Project6>>

Categories == {"all", "web", "mobile", "design"}

DebounceDelay == 280

VARIABLES
    timers,          \* pending setTimeout callbacks, oldest first: [id, due, kind, args]
    nextTimerId,     \* the id the next setTimeout returns
    currentCategory, \* the global currentCategory
    searchInput,     \* value of #search-input
    grid,            \* ids of the cards in #projects-grid, in order
    noResults,       \* style.display of #no-results
    activeFilters,   \* data-category of the .filter-btn elements with class 'active'
    modalActive,     \* #project-modal has class 'active'
    modalBody,       \* id of the project shown in #modal-body (0: none yet)
    bodyOverflow,    \* document.body.style.overflow
    timeout,         \* the timeout variable of debouncedSearch's closure (0: undefined)
    dbLast,          \* history: the latest call of debouncedSearch, [q, t]
    dbCount,         \* history: number of calls in the current burst
    dbExec,          \* history: searches the debounce timer ran for the current burst
    arg              \* argument of the handler that ran last

timerVars   == <<timers, nextTimerId>>
galleryVars == <<currentCategory, searchInput, grid, noResults, activeFilters,
                 modalActive, modalBody, bodyOverflow, timeout>>
debounceHist == <<dbLast, dbCount, dbExec>>

RenderProjectsAppend(projectsToRender) ==
    [grid      |-> grid \o [i \in 1..Len(projectsToRender) |-> projectsToRender[i].id],
     noResults |-> IF Len(projectsToRender) = 0 THEN "block" ELSE "none"]

\* projectsToRender.forEach(createProjectCard): one card per project, in order.
RenderProjects(projectsToRender) ==
    [grid      |-> [i \in 1..Len(projectsToRender) |-> projectsToRender[i].id],
     noResults |-> IF Len(projectsToRender) = 0 THEN "block" ELSE "none"]

CategoryFilterNoAll(category) ==
    SelectSeq(projects, LAMBDA p : p.category = category)

\* category === 'all' ? projects : projects.filter(p => p.category === category)
CategoryFilter(category) ==
    IF category = "all" THEN projects
    ELSE SelectSeq(projects, LAMBDA p : p.category = category)

\* The result is the gallery state filterProjects leaves.
FilterProjects(category) ==
    LET r == RenderProjects(CategoryFilter(category))
    IN  [currentCategory |-> category,
         searchInput     |-> <<>>,
         grid            |-> r.grid,
         noResults       |-> r.noResults]

Matches(project, term) ==
    \/ Includes(ToLowerCase(project.title), term)
    \/ Includes(ToLowerCase(project.description), term)
    \/ \E i \in 1..Len(project.tags) : Includes(ToLowerCase(project.tags[i]), term)

SearchProjectsAllCategories(query, category, input) ==
    LET term == Trim(ToLowerCase(query))
    IN  IF term = <<>> THEN FilterProjects(category)
        ELSE LET r == RenderProjects(SelectSeq(projects, LAMBDA p : Matches(p, term)))
             IN  [currentCategory |-> category,
                  searchInput     |-> input,
                  grid            |-> r.grid,
                  noResults       |-> r.noResults]

\* searchProjects(query) with the global currentCategory = category and the
\* search box holding input; the result is the gallery state it leaves.
SearchProjects(query, category, input) ==
    LET term == Trim(ToLowerCase(query))
    IN  IF term = <<>> THEN FilterProjects(category)
        ELSE LET base    == CategoryFilter(category)
                 results == SelectSeq(base, LAMBDA p : Matches(p, term))
                 r       == RenderProjects(results)
             IN  [currentCategory |-> category,
                  searchInput     |-> input,
                  grid            |-> r.grid,
                  noResults       |-> r.noResults]

\* setTimeout(callback, delay) at time t: the timer table (in order of
\* creation) with the new entry.
SetTimeout(tms, id, kind, args, delay, t) ==
    Append(tms, [id |-> id, due |-> t + delay, kind |-> kind, args |-> args])

\* clearTimeout(id)
ClearTimeout(tms, id) == SelectSeq(tms, LAMBDA tm : tm.id # id)

DebounceNoClear(tms, handle, id, kind, args, delay, t) ==
    [timers  |-> SetTimeout(tms, id, kind, args, delay, t),
     timeout |-> id]

\* One call of the function debounce(func, delay) returns: the timer table
\* and the closure's timeout variable after it.
Debounce(tms, handle, id, kind, args, delay, t) ==
    [timers  |-> SetTimeout(ClearTimeout(tms, handle), id, kind, args, delay, t),
     timeout |-> id]

ActivateFilterNoClear(active, category) == active \cup {category}

\* The click listener of a filter button: 'active' is removed from every
\* button and added to the one clicked; the categories of the active buttons.
ActivateFilter(active, category) == (active \ Categories) \cup {category}

\* openModal(projectId): the overlay state it leaves.
OpenModal(projectId, active, body, overflow) ==
    IF \E i \in 1..Len(projects) : projects[i].id = projectId
    THEN [modalActive |-> TRUE, modalBody |-> projectId, bodyOverflow |-> "hidden"]
    ELSE [modalActive |-> active, modalBody |-> body, bodyOverflow |-> overflow]

CloseModalKeepsScroll(body) ==
    [modalActive |-> FALSE, modalBody |-> body, bodyOverflow |-> "hidden"]

\* closeModal()
CloseModal(body) == [modalActive |-> FALSE, modalBody |-> body, bodyOverflow |-> ""]

(***************************************************************************)
(* Contact form: validation.                                               *)
(***************************************************************************)
Fields == <<"name", "email", "phone", "subject", "message">>
FieldSet == {Fields[i] : i \in 1..Len(Fields)}

\* validationRules; minLength and maxLength 0 and pattern "" stand for a rule
\* the field does not have.
validationRules ==
    [name    |-> [required |-> TRUE, minLength |-> 3, maxLength |-> 0, pattern |-> "name",
                  messages |-> [required  |-> "Por favor, introduz o teu nome",
                                minLength |-> "O nome deve ter pelo menos 3 caracteres",
                                maxLength |-> "",
                                pattern   |-> "O nome so pode conter letras"]],
     email   |-> [required |-> TRUE, minLength |-> 0, maxLength |-> 0, pattern |-> "email",
                  messages |-> [required  |-> "Por favor, introduz o teu email",
                                minLength |-> "",
                                maxLength |-> "",
                                pattern   |-> "Por favor, introduz um email valido"]],
     subject |-> [required |-> TRUE, minLength |-> 0, maxLength |-> 0, pattern |-> "",
                  messages |-> [required  |-> "Por favor, seleciona um assunto",
                                minLength |-> "",
                                maxLength |-> "",
                                pattern   |-> ""]],
     message |-> [required |-> TRUE, minLength |-> 10, maxLength |-> 500, pattern |-> "",
                  messages |-> [required  |-> "Por favor, escreve uma mensagem",
                                minLength |-> "A mensagem deve ter pelo menos 10 caracteres",
                                maxLength |-> "A mensagem nao pode ter mais de 500 caracteres",
                                pattern   |-> ""]],
     phone   |-> [required |-> FALSE, minLength |-> 0, maxLength |-> 0, pattern |-> "phone",
                  messages |-> [required  |-> "",
                                minLength |-> "",
                                maxLength |-> "",
                                pattern   |-> "Formato invalido. Ex: 912345678 ou +351 912 345 678"]]]

Accented == {"aacute", "agrave", "atilde", "acirc", "eacute", "ecirc", "iacute",
             "oacute", "otilde", "ocirc", "uacute", "ccedil",
             "Aacute", "Oacute", "Ccedil"}

\* [a-zA-ZÀ-ÿ\s]
IsNameChar(ch) ==
    \/ \E i \in 1..26 : ch = UpperCase[i] \/ ch = LowerCase[i]
    \/ ch \in Accented
    \/ ch \in Whitespace

\* /^[a-zA-ZÀ-ÿ\s]+$/
MatchName(v) == v # <<>> /\ \A i \in 1..Len(v) : IsNameChar(v[i])

\* [^\s@]
IsEmailChar(ch) == ch \notin Whitespace /\ ch # "@"

\* /^[^\s@]+@[^\s@]+\.[^\s@]+$/
MatchEmail(v) ==
    \E at \in 2..Len(v), dot \in 1..Len(v) :
        /\ v[at] = "@"
        /\ v[dot] = "."
        /\ dot >= at + 2
        /\ dot <= Len(v) - 1
        /\ \A i \in (1..Len(v)) \ {at} : IsEmailChar(v[i])

\* ([0-9]{3}\s?){n}$
RECURSIVE MatchDigitGroups(_, _)
MatchDigitGroups(v, n) ==
    IF n = 0 THEN v = <<>>
    ELSE /\ Len(v) >= 3
         /\ \A i \in 1..3 : IsDigit(v[i])
         /\ LET r == SubSeq(v, 4, Len(v))
            IN  MatchDigitGroups(IF r # <<>> /\ Head(r) \in Whitespace THEN Tail(r) ELSE r,
                                 n - 1)

\* /^(\+351\s?)?([0-9]{3}\s?){3}$/
MatchPhone(v) ==
    LET prefixed == StartsWith(v, <<"+", "3", "5", "1">>)
        r        == IF prefixed THEN SubSeq(v, 5, Len(v)) ELSE v
    IN  MatchDigitGroups(IF prefixed /\ r # <<>> /\ Head(r) \in Whitespace
                         THEN Tail(r) ELSE r, 3)

\* rules.pattern.test(value)
PatternTest(pattern, v) ==
    CASE pattern = "name"  -> MatchName(v)
      [] pattern = "email" -> MatchEmail(v)
      [] pattern = "phone" -> MatchPhone(v)

Valid == [valid |-> TRUE, message |-> ""]
Invalid(message) == [valid |-> FALSE, message |-> message]

ValidateFieldLengthFirst(fieldName, value) ==
    LET rules == validationRules[fieldName]
    IN  IF rules.minLength # 0 /\ Len(Trim(value)) < rules.minLength
        THEN Invalid(rules.messages.minLength)
        ELSE IF rules.required /\ Trim(value) = <<>>
        THEN Invalid(rules.messages.required)
        ELSE IF rules.maxLength # 0 /\ Len(Trim(value)) > rules.maxLength
        THEN Invalid(rules.messages.maxLength)
        ELSE IF rules.pattern # "" /\ Trim(value) # <<>> /\ ~PatternTest(rules.pattern, value)
        THEN Invalid(rules.messages.pattern)
        ELSE Valid

validateField(fieldName, value) ==
    LET rules == validationRules[fieldName]
    IN  IF rules.required /\ Trim(value) = <<>>
        THEN Invalid(rules.messages.required)
        ELSE IF rules.minLength # 0 /\ Len(Trim(value)) < rules.minLength
        THEN Invalid(rules.messages.minLength)
        ELSE IF rules.maxLength # 0 /\ Len(Trim(value)) > rules.maxLength
        THEN Invalid(rules.messages.maxLength)
        ELSE IF rules.pattern # "" /\ Trim(value) # <<>> /\ ~PatternTest(rules.pattern, value)
        THEN Invalid(rules.messages.pattern)
        ELSE Valid

ValidateFormLastField(vals) ==
    validateField(Fields[Len(Fields)], vals[Fields[Len(Fields)]]).valid

\* validateForm: the value it returns, for the field values vals.
validateForm(vals) == \A f \in FieldSet : validateField(f, vals[f]).valid

(***************************************************************************)
(* Contact form: persisted messages.                                       *)
(***************************************************************************)
SendDelay == 1500
ToastDuration == 3000
ToastFade == 350

\* JSON values: ["num", n], ["str", text], ["bool", b], ["null"]; an object is
\* a sequence of <<key, value>> pairs and the stored text is the array of
\* the messages' objects.
JNum(n)  == [type |-> "num",  num |-> n, str |-> <<>>, bool |-> FALSE]
JStr(t)  == [type |-> "str",  num |-> 0, str |-> t,    bool |-> FALSE]
JBool(b) == [type |-> "bool", num |-> 0, str |-> <<>>, bool |-> b]
JNull    == [type |-> "null", num |-> 0, str |-> <<>>, bool |-> FALSE]
\* The ISO-8601 text of instant t (toISOString), held as the instant it denotes.
JIso(t)  == [type |-> "str",  num |-> t, str |-> <<>>, bool |-> FALSE]

JTextEmpty(x) == IF x = Null THEN JStr(<<>>) ELSE JStr(Get(x))

\* A string-or-null property of a message (phone: formData.get('phone') || null).
JText(x) == IF x = Null THEN JNull ELSE JStr(Get(x))

JsonStringifyMessage(m) ==
    << <<"id", JNum(m.id)>>, <<"name", JStr(m.name)>>, <<"email", JStr(m.email)>>,
       <<"phone", JText(m.phone)>>, <<"subject", JStr(m.subject)>>,
       <<"message", JStr(m.message)>>, <<"date", JIso(m.date)>>,
       <<"read", JBool(m.read)>> >>

\* JSON.stringify(messages)
JsonStringify(messages) ==
    [i \in 1..Len(messages) |-> JsonStringifyMessage(messages[i])]

JsonProperty(obj, key) == obj[CHOOSE i \in 1..Len(obj) : obj[i][1] = key][2]

JsonParseText(v) == IF v.type = "null" THEN Null ELSE Some(v.str)

JsonParseMessage(obj) ==
    [id      |-> JsonProperty(obj, "id").num,
     name    |-> JsonProperty(obj, "name").str,
     email   |-> JsonProperty(obj, "email").str,
     phone   |-> JsonParseText(JsonProperty(obj, "phone")),
     subject |-> JsonProperty(obj, "subject").str,
     message |-> JsonProperty(obj, "message").str,
     date    |-> JsonProperty(obj, "date").num,
     read    |-> JsonProperty(obj, "read").bool]

\* A stored text that is not JSON: JSON.parse throws a SyntaxError on it.  It
\* has two elements where Some(v) has one.
NotJson == << <<>>, <<"SyntaxError">> >>

\* JSON.parse(localStorage.getItem('contactMessages')) || [], when JSON.parse
\* returns.
ReadMessages(stored) ==
    IF stored = Null THEN <<>>
    ELSE [i \in 1..Len(Get(stored)) |-> JsonParseMessage(Get(stored)[i])]

NewMessageRead(formData, t) ==
    [id      |-> t,
     name    |-> formData["name"],
     email   |-> formData["email"],
     phone   |-> IF formData["phone"] = <<>> THEN Null ELSE Some(formData["phone"]),
     subject |-> formData["subject"],
     message |-> formData["message"],
     date    |-> t,
     read    |-> TRUE]

\* The message saveMessage builds from the form data at time t.
NewMessage(formData, t) ==
    [id      |-> t,
     name    |-> formData["name"],
     email   |-> formData["email"],
     phone   |-> IF formData["phone"] = <<>> THEN Null ELSE Some(formData["phone"]),
     subject |-> formData["subject"],
     message |-> formData["message"],
     date    |-> t,
     read    |-> FALSE]

SaveMessageAlone(stored, formData, t) == Some(JsonStringify(<<NewMessage(formData, t)>>))

SaveMessageAppend(stored, formData, t) ==
    Some(JsonStringify(Append(ReadMessages(stored), NewMessage(formData, t))))

\* saveMessage(formData) at time t: the stored text after it.
SaveMessage(stored, formData, t) ==
    Some(JsonStringify(<<NewMessage(formData, t)>> \o ReadMessages(stored)))

MarkNewestAsRead(stored) ==
    LET messages == ReadMessages(stored)
    IN  Some(JsonStringify([i \in 1..Len(messages) |->
                               IF i = 1 THEN [messages[i] EXCEPT !.read = TRUE]
                               ELSE messages[i]]))

\* markAllAsRead(): the stored text after it.
MarkAllAsRead(stored) ==
    LET messages == ReadMessages(stored)
    IN  Some(JsonStringify([i \in 1..Len(messages) |->
                               [messages[i] EXCEPT !.read = TRUE]]))

\* The filter and setItem of deleteMessage(id): the stored text after it.
DeleteMessage(stored, id) ==
    Some(JsonStringify(SelectSeq(ReadMessages(stored), LAMBDA m : m.id # id)))

(***************************************************************************)
(* Contact form: page state.                                               *)
(***************************************************************************)
VARIABLES
    lsMessages,        \* localStorage 'contactMessages': Null or the JSON text
    fieldValue,        \* value of each form field
    groupClass,        \* 'valid' / 'invalid' class of each field's .form-group ("": neither)
    errorText,         \* textContent of each group's .error-message
    submitDisabled,    \* #submit-btn.disabled
    submitLoading,     \* #submit-btn has class 'loading'
    charCount,         \* textContent of #char-count
    counterClass,      \* 'warning' / 'error' class of .char-counter ("": neither)
    toasts,            \* children of #toast-container: [id, type, title, fading, shown (when)]
    adminVisible,      \* the visible variable of setupAdminToggle's closure
    adminDisplay,      \* style.display of #admin-messages
    totalEl,           \* textContent of #total-messages
    badgeText,         \* textContent of #unread-badge
    badgeDisplay,      \* style.display of #unread-badge
    listDisplay,       \* style.display of #messages-list
    noMessagesDisplay, \* style.display of #no-messages
    listCards          \* the .message-card elements of #messages-list: [id (data-id text), unread]

formVars  == <<fieldValue, groupClass, errorText, submitDisabled, submitLoading,
               charCount, counterClass>>
adminVars == <<adminVisible, adminDisplay, totalEl, badgeText, badgeDisplay,
               listDisplay, noMessagesDisplay, listCards>>

EmptyForm == [f \in FieldSet |-> <<>>]

IsMarkedAlways(class) == TRUE

\* The test of the input listener: the group has the class 'invalid' or 'valid'.
IsMarked(class) == class \in {"valid", "invalid"}

ShowFieldFeedbackValid(result) == [class |-> "valid", error |-> ""]

\* showFieldFeedback(fieldName, isValid, message): the group's class and
\* error text after it.
ShowFieldFeedback(result) ==
    [class |-> IF result.valid THEN "valid" ELSE "invalid",
     error |-> IF result.valid THEN "" ELSE result.message]

\* showToast(type, title, message): the container and the timer table after it.
ShowToast(container, tms, id, type, title, t) ==
    [toasts |-> Append(container, [id |-> id, type |-> type, title |-> title,
                                   fading |-> FALSE, shown |-> t]),
     timers |-> SetTimeout(tms, id, "toastAuto", <<id>>, ToastDuration, t)]

RemoveToastNoTimer(container, tms, toastId, id, t) ==
    [toasts |-> [i \in 1..Len(container) |->
                    IF container[i].id = toastId
                    THEN [container[i] EXCEPT !.fading = TRUE] ELSE container[i]],
     timers |-> tms]

\* The remove closure of the toast with this id.
RemoveToast(container, tms, toastId, id, t) ==
    [toasts |-> [i \in 1..Len(container) |->
                    IF container[i].id = toastId
                    THEN [container[i] EXCEPT !.fading = TRUE] ELSE container[i]],
     timers |-> SetTimeout(tms, id, "toastRemove", <<toastId>>, ToastFade, t)]

\* loadMessages() after the optional markAllAsRead: what it writes to the page.
LoadMessagesBadgeTotal(stored, cards, listDisp, noMsgDisp) ==
    LET messages == ReadMessages(stored)
    IN  [totalEl      |-> NumToStr(Num(Len(messages))),
         badgeText    |-> NumToStr(Num(Len(messages))),
         badgeDisplay |-> IF Len(messages) > 0 THEN "flex" ELSE "none",
         listDisplay  |-> IF Len(messages) = 0 THEN "none" ELSE "flex",
         noMessagesDisplay |-> IF Len(messages) = 0 THEN "block" ELSE "none",
         listCards    |-> IF Len(messages) = 0 THEN cards
                          ELSE [i \in 1..Len(messages) |->
                                   [id |-> NumToStr(Num(messages[i].id)), unread |-> ~messages[i].read]]]

LoadMessages(stored, cards, listDisp, noMsgDisp) ==
    LET messages == ReadMessages(stored)
        unread   == Len(SelectSeq(messages, LAMBDA m : ~m.read))
    IN  [totalEl      |-> NumToStr(Num(Len(messages))),
         badgeText    |-> NumToStr(Num(unread)),
         badgeDisplay |-> IF unread > 0 THEN "flex" ELSE "none",
         listDisplay  |-> IF Len(messages) = 0 THEN "none" ELSE "flex",
         noMessagesDisplay |-> IF Len(messages) = 0 THEN "block" ELSE "none",
         listCards    |-> IF Len(messages) = 0 THEN cards
                          ELSE [i \in 1..Len(messages) |->
                                   [id |-> NumToStr(Num(messages[i].id)), unread |-> ~messages[i].read]]]

ApplyLoadMessages(stored) ==
    LET r == LoadMessages(stored, listCards, listDisplay, noMessagesDisplay)
    IN  /\ totalEl' = r.totalEl
        /\ badgeText' = r.badgeText
        /\ badgeDisplay' = r.badgeDisplay
        /\ listDisplay' = r.listDisplay
        /\ noMessagesDisplay' = r.noMessagesDisplay
        /\ listCards' = r.listCards

SubmitFinallyNoUpdate(vals) == [disabled |-> FALSE, loading |-> FALSE]

\* The finally block of the submit listener, the form holding vals: the
\* submit button's disabled flag and 'loading' class after it.
SubmitFinally(vals) == [disabled |-> ~validateForm(vals), loading |-> FALSE]

\* The class of .char-counter for a message of len characters.
CounterClass(len) ==
    IF len > 500 THEN "error" ELSE IF len > 400 /\ len <= 500 THEN "warning" ELSE ""

(***************************************************************************)
(* Bounds on what one run of the model creates.                            *)
(***************************************************************************)
MaxMsgs   == 2
MaxAlerts == 2
MaxTimers == 3
MaxBurst  == 2

vars == <<now, ticks, loads, ev, arg, alerts, themeVars, clockVars, tabVars, visitVars, timerVars, galleryVars,
          debounceHist, lsMessages, formVars, toasts, adminVars>>

pageVars == <<timerVars, galleryVars, debounceHist, formVars, toasts, adminVars>>

(***************************************************************************)
(* Initial state: no page loaded yet, and an empty store.                  *)
(***************************************************************************)
InitPageAt(start) ==
    /\ now = start
    /\ ticks = 0
    /\ loads = 0
    /\ ev = "none"
    /\ arg = <<>>
    /\ alerts = 0
    /\ darkMode = FALSE
    /\ prefersDark = FALSE
    /\ is24Hour = TRUE
    /\ hoursEl = <<>>
    /\ minutesEl = <<>>
    /\ secondsEl = <<>>
    /\ clockDue = 0
    /\ tabPc = [t \in Tabs |-> "idle"]
    /\ tabRead = [t \in Tabs |-> Null]
    /\ visitCountEl = <<>>
    /\ lastVisitEl = [text |-> "", n |-> 0, unit |-> "", suffix |-> ""]
    /\ timers = <<>>
    /\ nextTimerId = 1
    /\ currentCategory = "all"
    /\ searchInput = <<>>
    /\ grid = <<>>
    /\ noResults = ""
    /\ activeFilters = {}
    /\ modalActive = FALSE
    /\ modalBody = 0
    /\ bodyOverflow = ""
    /\ timeout = 0
    /\ dbLast = Null
    /\ dbCount = 0
    /\ dbExec = <<>>
    /\ fieldValue = EmptyForm
    /\ groupClass = [f \in FieldSet |-> ""]
    /\ errorText = [f \in FieldSet |-> ""]
    /\ submitDisabled = FALSE
    /\ submitLoading = FALSE
    /\ charCount = <<"0">>
    /\ counterClass = ""
    /\ toasts = <<>>
    /\ adminVisible = FALSE
    /\ adminDisplay = ""
    /\ totalEl = <<"0">>
    /\ badgeText = <<>>
    /\ badgeDisplay = ""
    /\ listDisplay = ""
    /\ noMessagesDisplay = ""
    /\ listCards = <<>>

\* No page loaded yet, at instant 0.
InitPage == InitPageAt(0)

Init ==
    /\ InitPage
    /\ lsTheme = Null
    /\ lsClockFormat = Null
    /\ lsVisitCount = Null
    /\ lsLastVisit = Null
    /\ lsMessages = Null

\* Texts another page of the origin, an older version or the user may have
\* left under the keys 'visitCount' and 'clockFormat'.
StoredCounts == {Null, Some(<<>>), Some(<<"7">>), Some(<<"a", "b", "c">>), Some(<<"3", "x">>)}
StoredFormats == {Null, Some(<<>>), Some(<<"2", "4">>), Some(<<"1", "2">>),
                  Some(<<"2", "4", "h">>)}

\* No page loaded yet, and a store that holds such texts.
InitPrefs ==
    /\ InitPage
    /\ lsTheme = Null
    /\ lsClockFormat \in StoredFormats
    /\ lsVisitCount \in StoredCounts
    /\ lsLastVisit = Null
    /\ lsMessages = Null

\* No page loaded yet, and a store whose 'contactMessages' may be a text
\* that is not JSON.
InitStored ==
    /\ InitPage
    /\ lsTheme = Null
    /\ lsClockFormat = Null
    /\ lsVisitCount = Null
    /\ lsLastVisit = Null
    /\ lsMessages \in {Null, NotJson}

(***************************************************************************)
(* The clock and the timer table.                                          *)
(***************************************************************************)
TimerDue == \E i \in 1..Len(timers) : timers[i].due <= now

\* The pending timer that runs next: the earliest due, the oldest of those.
NextTimer ==
    CHOOSE i \in 1..Len(timers) :
        \A j \in 1..Len(timers) :
            \/ timers[i].due < timers[j].due
            \/ timers[i].due = timers[j].due /\ i <= j

WithoutNextTimer == SelectSeq(timers, LAMBDA tm : tm.id # timers[NextTimer].id)

Fires(kind) ==
    /\ loads > 0
    /\ TimerDue
    /\ timers[NextTimer].kind = kind

\* A user event is handled once every callback that is due has run.
CanHandle == loads > 0 /\ ~TimerDue

\* d milliseconds pass; no timer is due before the new instant.
Tick(d) ==
    /\ ticks < MaxTicks
    /\ d > 0
    /\ \A i \in 1..Len(timers) : now + d <= timers[i].due
    /\ now' = now + d
    /\ ticks' = ticks + 1
    /\ ev' = "tick"
    /\ UNCHANGED <<loads, arg, alerts, themeVars, clockVars, tabVars, visitVars, pageVars, lsMessages>>

\* Time passes up to the next due timer.
TickToTimer ==
    /\ timers # <<>>
    /\ Tick(timers[NextTimer].due - now)

\* The same, not counted as a clock advance: the pending timers bound it.
AwaitTimer ==
    /\ timers # <<>>
    /\ ~TimerDue
    /\ now' = timers[NextTimer].due
    /\ ev' = "await"
    /\ UNCHANGED <<ticks, loads, arg, alerts, themeVars, clockVars, tabVars, visitVars, pageVars, lsMessages>>

(***************************************************************************)
(* Page load: the DOMContentLoaded handler on a freshly parsed page.       *)
(***************************************************************************)
ApplyClock(r) ==
    /\ hoursEl' = r.hours
    /\ minutesEl' = r.minutes
    /\ secondsEl' = r.seconds

StartGallery(markupActive) ==
    LET r == RenderProjects(projects)
    IN  /\ currentCategory' = "all"
        /\ searchInput' = <<>>
        /\ grid' = r.grid
        /\ noResults' = r.noResults
        /\ activeFilters' = markupActive
        /\ modalActive' = FALSE
        /\ modalBody' = 0
        /\ bodyOverflow' = ""
        /\ timeout' = 0
        /\ dbLast' = Null
        /\ dbCount' = 0
        /\ dbExec' = <<>>

StartContactForm ==
    LET r == IF lsMessages = NotJson
             THEN [totalEl |-> <<"0">>, badgeText |-> <<>>, badgeDisplay |-> "",
                   listDisplay |-> "", noMessagesDisplay |-> "", listCards |-> <<>>]
             ELSE LoadMessages(lsMessages, <<>>, "", "")
    IN  /\ fieldValue' = EmptyForm
        /\ groupClass' = [f \in FieldSet |-> ""]
        /\ errorText' = [f \in FieldSet |-> ""]
        /\ submitDisabled' = ~validateForm(EmptyForm)
        /\ submitLoading' = FALSE
        /\ charCount' = <<"0">>
        /\ counterClass' = ""
        /\ toasts' = <<>>
        /\ adminVisible' = FALSE
        /\ adminDisplay' = ""
        /\ totalEl' = r.totalEl
        /\ badgeText' = r.badgeText
        /\ badgeDisplay' = r.badgeDisplay
        /\ listDisplay' = r.listDisplay
        /\ noMessagesDisplay' = r.noMessagesDisplay
        /\ listCards' = r.listCards
        /\ UNCHANGED lsMessages

\* markupActive: the filter buttons the page's markup gives the class 'active'.
\* On a stored text that is not JSON the last call, loadMessages(), throws out
\* of the handler before it writes to the page.
PageLoad(markupActive) ==
    /\ loads < MaxLoads
    /\ loads' = loads + 1
    /\ ev' = IF lsMessages = NotJson THEN "loadThrew" ELSE "load"
    /\ arg' = <<>>
    /\ timers' = <<>>
    /\ nextTimerId' = 1
    /\ StartVisitCounter
    /\ StartGallery(markupActive)
    /\ darkMode' = LoadSavedTheme(FALSE, lsTheme, prefersDark)
    /\ is24Hour' = LoadClockFormat(TRUE, lsClockFormat)
    /\ ApplyClock(UpdateClock(now, is24Hour'))
    /\ clockDue' = now + ClockPeriod
    /\ StartContactForm
    /\ UNCHANGED <<now, ticks, alerts, lsTheme, prefersDark, lsClockFormat, tabVars>>

(***************************************************************************)
(* Visit counter: click on #reset-counter.                                 *)
(***************************************************************************)
\* confirmed: the answer to window.confirm.
ResetVisitCounter(confirmed) ==
    /\ CanHandle
    /\ IF ~Confirm(confirmed)
       THEN UNCHANGED <<visitVars, alerts>>
       ELSE /\ alerts < MaxAlerts
            /\ alerts' = alerts + 1
            /\ lsVisitCount' = Null
            /\ lsLastVisit'  = Null
            /\ visitCountEl' = UpdateVisitDisplay(Null)
            /\ lastVisitEl'  = UpdateLastVisitDisplay(Null, now)
    /\ ev' = IF confirmed THEN "reset" ELSE "resetDeclined"
    /\ arg' = <<>>
    /\ UNCHANGED <<now, ticks, loads, themeVars, clockVars, tabVars, pageVars, lsMessages>>

(***************************************************************************)
(* Theme handlers.                                                         *)
(***************************************************************************)
\* Click on #theme-toggle.
ThemeToggleClick ==
    /\ CanHandle
    /\ LET r == ToggleTheme(darkMode, lsTheme)
       IN  /\ darkMode' = r.darkMode
           /\ lsTheme' = r.theme
    /\ ev' = "themeToggle"
    /\ arg' = <<>>
    /\ UNCHANGED <<now, ticks, loads, alerts, prefersDark, clockVars, tabVars, visitVars, pageVars,
                   lsMessages>>

\* The user changes the colour scheme of the operating system.
SystemSchemeChange ==
    /\ prefersDark' = ~prefersDark
    /\ ev' = "systemScheme"
    /\ arg' = <<>>
    /\ UNCHANGED <<now, ticks, loads, alerts, lsTheme, darkMode, clockVars, tabVars, visitVars, pageVars,
                   lsMessages>>

\* Click on #format-toggle.
FormatToggleClick ==
    /\ CanHandle
    /\ is24Hour' = ToggleFormat(is24Hour).is24Hour
    /\ lsClockFormat' = ToggleFormat(is24Hour).clockFormat
    /\ ApplyClock(UpdateClock(now, is24Hour'))
    /\ ev' = "formatToggle"
    /\ arg' = <<>>
    /\ UNCHANGED <<now, ticks, loads, alerts, clockDue, themeVars, tabVars, visitVars, pageVars,
                   lsMessages>>

\* Time passes up to the next call of the interval of startClock; no timer
\* is due before it.
ClockWait ==
    /\ loads > 0
    /\ ticks < MaxTicks
    /\ now < clockDue
    /\ \A i \in 1..Len(timers) : clockDue <= timers[i].due
    /\ now' = clockDue
    /\ ticks' = ticks + 1
    /\ ev' = "tick"
    /\ UNCHANGED <<loads, arg, alerts, themeVars, clockVars, tabVars, visitVars, pageVars, lsMessages>>

\* The interval of startClock calls updateClock.  The interval is kept apart
\* from the timer table, and the specifications of the other components
\* leave this action out: in them the clock's texts stay those of the load.
ClockTick ==
    /\ loads > 0
    /\ now >= clockDue
    /\ ApplyClock(UpdateClock(now, is24Hour))
    /\ clockDue' = clockDue + ClockPeriod
    /\ ev' = "clockTick"
    /\ arg' = <<>>
    /\ UNCHANGED <<now, ticks, loads, alerts, lsClockFormat, is24Hour, themeVars, tabVars, visitVars,
                   pageVars, lsMessages>>

(***************************************************************************)
(* Gallery handlers.                                                       *)
(***************************************************************************)
ApplyGallery(r) ==
    /\ currentCategory' = r.currentCategory
    /\ searchInput' = r.searchInput
    /\ grid' = r.grid
    /\ noResults' = r.noResults

\* Click on the filter button of this category.
FilterClick(category) ==
    /\ CanHandle
    /\ activeFilters' = ActivateFilter(activeFilters, category)
    /\ ApplyGallery(FilterProjects(category))
    /\ ev' = "filter"
    /\ arg' = category
    /\ UNCHANGED <<now, ticks, loads, alerts, themeVars, clockVars, tabVars, visitVars, timerVars, modalActive, modalBody,
                   bodyOverflow, timeout, debounceHist, lsMessages, formVars,
                   toasts, adminVars>>

\* Input event on the search box, which then holds q.
SearchInputEvent(q) ==
    /\ CanHandle
    /\ LET newBurst == dbLast = Null \/ now - Get(dbLast).t >= DebounceDelay
       IN  /\ IF newBurst THEN dbCount' = 1 ELSE dbCount' = dbCount + 1
           /\ dbCount' <= MaxBurst
           /\ dbExec' = IF newBurst THEN <<>> ELSE dbExec
    /\ dbLast' = Some([q |-> q, t |-> now])
    /\ searchInput' = q
    /\ LET r == Debounce(timers, timeout, nextTimerId, "search", q, DebounceDelay, now)
       IN  /\ timers' = r.timers
           /\ timeout' = r.timeout
    /\ nextTimerId' = nextTimerId + 1
    /\ ev' = "searchInput"
    /\ arg' = q
    /\ UNCHANGED <<now, ticks, loads, alerts, themeVars, clockVars, tabVars, visitVars, currentCategory, grid, noResults,
                   activeFilters, modalActive, modalBody, bodyOverflow, lsMessages,
                   formVars, toasts, adminVars>>

\* The debounce timer runs searchProjects with the arguments of the call
\* that set it.
FireSearch ==
    /\ Fires("search")
    /\ LET tm == timers[NextTimer]
       IN  /\ ApplyGallery(SearchProjects(tm.args, currentCategory, searchInput))
           /\ dbExec' = Append(dbExec, [q |-> tm.args, at |-> now])
           /\ arg' = tm.args
    /\ timers' = WithoutNextTimer
    /\ ev' = "search"
    /\ UNCHANGED <<now, ticks, loads, alerts, themeVars, clockVars, tabVars, visitVars, nextTimerId, activeFilters,
                   modalActive, modalBody, bodyOverflow, timeout, dbLast, dbCount,
                   lsMessages, formVars, toasts, adminVars>>

ApplyModal(r) ==
    /\ modalActive' = r.modalActive
    /\ modalBody' = r.modalBody
    /\ bodyOverflow' = r.bodyOverflow

\* Escape pressed in the search box: its keydown listener, then the
\* document's.
SearchEscape ==
    /\ CanHandle
    /\ ApplyGallery(SearchProjects(<<>>, currentCategory, <<>>))
    /\ ApplyModal(CloseModal(modalBody))
    /\ ev' = "searchEscape"
    /\ arg' = <<>>
    /\ UNCHANGED <<now, ticks, loads, alerts, themeVars, clockVars, tabVars, visitVars, timerVars, activeFilters, timeout,
                   debounceHist, lsMessages, formVars, toasts, adminVars>>

\* Escape pressed anywhere else.
DocumentEscape ==
    /\ CanHandle
    /\ ApplyModal(CloseModal(modalBody))
    /\ ev' = "escape"
    /\ arg' = <<>>
    /\ UNCHANGED <<now, ticks, loads, alerts, themeVars, clockVars, tabVars, visitVars, timerVars, currentCategory,
                   searchInput, grid, noResults, activeFilters, timeout,
                   debounceHist, lsMessages, formVars, toasts, adminVars>>

\* Click inside the card at position i of the grid.
CardClick(i) ==
    /\ CanHandle
    /\ i \in 1..Len(grid)
    /\ ApplyModal(OpenModal(Get(ParseInt(NatToStr(grid[i]))), modalActive, modalBody,
                            bodyOverflow))
    /\ ev' = "cardClick"
    /\ arg' = grid[i]
    /\ UNCHANGED <<now, ticks, loads, alerts, themeVars, clockVars, tabVars, visitVars, timerVars, currentCategory,
                   searchInput, grid, noResults, activeFilters, timeout,
                   debounceHist, lsMessages, formVars, toasts, adminVars>>

\* openModal(projectId) called with any number.
OpenModalCall(projectId) ==
    /\ CanHandle
    /\ ApplyModal(OpenModal(projectId, modalActive, modalBody, bodyOverflow))
    /\ ev' = "openModal"
    /\ arg' = projectId
    /\ UNCHANGED <<now, ticks, loads, alerts, themeVars, clockVars, tabVars, visitVars, timerVars, currentCategory,
                   searchInput, grid, noResults, activeFilters, timeout,
                   debounceHist, lsMessages, formVars, toasts, adminVars>>

\* Click on .modal-close or on the overlay itself.
ModalCloseClick ==
    /\ CanHandle
    /\ modalActive
    /\ ApplyModal(CloseModal(modalBody))
    /\ ev' = "modalClose"
    /\ arg' = <<>>
    /\ UNCHANGED <<now, ticks, loads, alerts, themeVars, clockVars, tabVars, visitVars, timerVars, currentCategory,
                   searchInput, grid, noResults, activeFilters, timeout,
                   debounceHist, lsMessages, formVars, toasts, adminVars>>

(***************************************************************************)
(* Contact form handlers.                                                  *)
(***************************************************************************)
PendingSends == Len(SelectSeq(timers, LAMBDA tm : tm.kind = "send"))

\* Input event on field f, which then holds v: the listener of
\* setupFormValidation and, on the message field, that of setupCharCounter.
FieldInput(f, v) ==
    /\ CanHandle
    /\ v # fieldValue[f]
    /\ fieldValue' = [fieldValue EXCEPT ![f] = v]
    /\ LET fb == ShowFieldFeedback(validateField(f, v))
       IN  IF IsMarked(groupClass[f])
           THEN /\ groupClass' = [groupClass EXCEPT ![f] = fb.class]
                /\ errorText' = [errorText EXCEPT ![f] = fb.error]
           ELSE UNCHANGED <<groupClass, errorText>>
    /\ IF f = "message"
       THEN /\ charCount' = NumToStr(Num(Len(v)))
            /\ counterClass' = CounterClass(Len(v))
       ELSE UNCHANGED <<charCount, counterClass>>
    /\ submitDisabled' = ~validateForm(fieldValue')
    /\ ev' = "input"
    /\ arg' = f
    /\ UNCHANGED <<now, ticks, loads, alerts, themeVars, clockVars, tabVars, visitVars, timerVars, galleryVars, debounceHist,
                   lsMessages, submitLoading, toasts, adminVars>>

\* Field f loses the focus.
FieldBlur(f) ==
    /\ CanHandle
    /\ LET fb == ShowFieldFeedback(validateField(f, fieldValue[f]))
       IN  /\ groupClass' = [groupClass EXCEPT ![f] = fb.class]
           /\ errorText' = [errorText EXCEPT ![f] = fb.error]
    /\ submitDisabled' = ~validateForm(fieldValue)
    /\ ev' = "blur"
    /\ arg' = f
    /\ UNCHANGED <<now, ticks, loads, alerts, themeVars, clockVars, tabVars, visitVars, timerVars, galleryVars, debounceHist,
                   lsMessages, fieldValue, submitLoading, charCount, counterClass,
                   toasts, adminVars>>

\* validateForm(false): every group gets the feedback of its field.
ShowFormFeedback ==
    /\ groupClass' = [f \in FieldSet |->
                         ShowFieldFeedback(validateField(f, fieldValue[f])).class]
    /\ errorText' = [f \in FieldSet |->
                        ShowFieldFeedback(validateField(f, fieldValue[f])).error]

\* The submit listener up to its return or its await.
SubmitEvent ==
    /\ CanHandle
    /\ nextTimerId <= MaxTimers
    /\ ShowFormFeedback
    /\ IF ~validateForm(fieldValue)
       THEN /\ LET r == ShowToast(toasts, timers, nextTimerId, "error", "Erro!", now)
               IN  /\ toasts' = r.toasts
                   /\ timers' = r.timers
            /\ ev' = "submitInvalid"
            /\ UNCHANGED <<submitDisabled, submitLoading>>
       ELSE /\ Len(ReadMessages(lsMessages)) + PendingSends < MaxMsgs
            /\ submitDisabled' = TRUE
            /\ submitLoading' = TRUE
            /\ timers' = SetTimeout(timers, nextTimerId, "send", <<>>, SendDelay, now)
            /\ ev' = "submitStart"
            /\ UNCHANGED toasts
    /\ nextTimerId' = nextTimerId + 1
    /\ arg' = <<>>
    /\ UNCHANGED <<now, ticks, loads, alerts, themeVars, clockVars, tabVars, visitVars, galleryVars, debounceHist, lsMessages,
                   fieldValue, charCount, counterClass, adminVars>>

\* The submit listener after its await: try, catch and finally.
\* stored: whether localStorage.setItem accepts the new list (it throws when
\* the quota is exceeded); JSON.parse in saveMessage throws on a stored text
\* that is not JSON.  Either exception is caught by the catch.
FireSend(stored) ==
    /\ Fires("send")
    /\ IF stored /\ lsMessages # NotJson
       THEN /\ lsMessages' = SaveMessage(lsMessages, fieldValue, now)
            /\ LET r == ShowToast(toasts, WithoutNextTimer, nextTimerId, "success",
                                  "Mensagem Enviada!", now)
               IN  /\ toasts' = r.toasts
                   /\ timers' = r.timers
            /\ fieldValue' = EmptyForm
            /\ groupClass' = [f \in FieldSet |-> ""]
            /\ charCount' = <<"0">>
            /\ ApplyLoadMessages(lsMessages')
            /\ ev' = "sendOk"
       ELSE /\ LET r == ShowToast(toasts, WithoutNextTimer, nextTimerId, "error",
                                  "Erro ao Enviar", now)
               IN  /\ toasts' = r.toasts
                   /\ timers' = r.timers
            /\ ev' = "sendFailed"
            /\ UNCHANGED <<lsMessages, fieldValue, groupClass, charCount, totalEl,
                           badgeText, badgeDisplay, listDisplay, noMessagesDisplay,
                           listCards>>
    /\ submitDisabled' = SubmitFinally(fieldValue').disabled
    /\ submitLoading' = SubmitFinally(fieldValue').loading
    /\ nextTimerId' = nextTimerId + 1
    /\ arg' = <<>>
    /\ UNCHANGED <<now, ticks, loads, alerts, themeVars, clockVars, tabVars, visitVars, galleryVars, debounceHist, errorText,
                   counterClass, adminVisible, adminDisplay>>

InContainer(toastId) == \E i \in 1..Len(toasts) : toasts[i].id = toastId

\* Click on the .toast-close of the toast at position i.
ToastCloseClick(i) ==
    /\ CanHandle
    /\ i \in 1..Len(toasts)
    /\ nextTimerId <= MaxTimers
    /\ LET r == RemoveToast(toasts, timers, toasts[i].id, nextTimerId, now)
       IN  /\ toasts' = r.toasts
           /\ timers' = r.timers
    /\ nextTimerId' = nextTimerId + 1
    /\ ev' = "toastClose"
    /\ arg' = toasts[i].id
    /\ UNCHANGED <<now, ticks, loads, alerts, themeVars, clockVars, tabVars, visitVars, galleryVars, debounceHist, lsMessages,
                   formVars, adminVars>>

\* The auto-dismiss timer of a toast: if (toast.parentElement) remove().
FireToastAuto ==
    /\ Fires("toastAuto")
    /\ LET toastId == timers[NextTimer].args[1]
           r == RemoveToast(toasts, WithoutNextTimer, toastId, nextTimerId, now)
       IN  /\ IF InContainer(toastId)
              THEN /\ toasts' = r.toasts
                   /\ timers' = r.timers
                   /\ nextTimerId' = nextTimerId + 1
              ELSE /\ timers' = WithoutNextTimer
                   /\ UNCHANGED <<toasts, nextTimerId>>
           /\ arg' = toastId
    /\ ev' = "toastAuto"
    /\ UNCHANGED <<now, ticks, loads, alerts, themeVars, clockVars, tabVars, visitVars, galleryVars, debounceHist, lsMessages,
                   formVars, adminVars>>

\* The timer remove() sets: toast.remove().
FireToastRemove ==
    /\ Fires("toastRemove")
    /\ LET toastId == timers[NextTimer].args[1]
       IN  /\ toasts' = SelectSeq(toasts, LAMBDA x : x.id # toastId)
           /\ arg' = toastId
    /\ timers' = WithoutNextTimer
    /\ ev' = "toastRemove"
    /\ UNCHANGED <<now, ticks, loads, alerts, themeVars, clockVars, tabVars, visitVars, nextTimerId, galleryVars,
                   debounceHist, lsMessages, formVars, adminVars>>

(***************************************************************************)
(* Admin panel handlers.                                                   *)
(***************************************************************************)
\* Click on #toggle-admin.  On a stored text that is not JSON markAllAsRead
\* throws out of the listener, the panel already made visible.
AdminToggle ==
    /\ CanHandle
    /\ adminVisible' = ~adminVisible
    /\ adminDisplay' = IF adminVisible' THEN "block" ELSE "none"
    /\ IF adminVisible' /\ lsMessages # NotJson
       THEN /\ lsMessages' = MarkAllAsRead(lsMessages)
            /\ ApplyLoadMessages(lsMessages')
       ELSE UNCHANGED <<lsMessages, totalEl, badgeText, badgeDisplay, listDisplay,
                        noMessagesDisplay, listCards>>
    /\ ev' = IF ~adminVisible' THEN "adminClose"
             ELSE IF lsMessages = NotJson THEN "adminOpenThrew" ELSE "adminOpen"
    /\ arg' = <<>>
    /\ UNCHANGED <<now, ticks, loads, alerts, themeVars, clockVars, tabVars, visitVars, timerVars, galleryVars, debounceHist,
                   formVars, toasts>>

\* Click on the .btn-delete of the card at position i of the list;
\* confirmed: the answer to confirm.  On a stored text that is not JSON
\* deleteMessage throws after the confirm.
DeleteClick(i, confirmed) ==
    /\ CanHandle
    /\ adminDisplay = "block"
    /\ listDisplay = "flex"
    /\ i \in 1..Len(listCards)
    /\ IF Confirm(confirmed) /\ lsMessages # NotJson
       THEN /\ lsMessages' = DeleteMessage(lsMessages, Get(ParseInt(listCards[i].id)))
            /\ ApplyLoadMessages(lsMessages')
            /\ LET r == ShowToast(toasts, timers, nextTimerId, "success", "Eliminada!", now)
               IN  /\ toasts' = r.toasts
                   /\ timers' = r.timers
            /\ nextTimerId' = nextTimerId + 1
       ELSE UNCHANGED <<lsMessages, totalEl, badgeText, badgeDisplay, listDisplay,
                        noMessagesDisplay, listCards, toasts, timerVars>>
    /\ ev' = IF ~confirmed THEN "deleteDeclined"
             ELSE IF lsMessages = NotJson THEN "deleteThrew" ELSE "delete"
    /\ arg' = Get(ParseInt(listCards[i].id))
    /\ UNCHANGED <<now, ticks, loads, alerts, themeVars, clockVars, tabVars, visitVars, galleryVars, debounceHist, formVars,
                   adminVisible, adminDisplay>>

\* Click on #clear-messages; confirmed: the answer to confirm.
ClearAllClick(confirmed) ==
    /\ CanHandle
    /\ adminDisplay = "block"
    /\ nextTimerId <= MaxTimers
    /\ IF Confirm(confirmed)
       THEN /\ lsMessages' = Null
            /\ ApplyLoadMessages(lsMessages')
            /\ LET r == ShowToast(toasts, timers, nextTimerId, "success", "Limpo!", now)
               IN  /\ toasts' = r.toasts
                   /\ timers' = r.timers
            /\ nextTimerId' = nextTimerId + 1
       ELSE UNCHANGED <<lsMessages, totalEl, badgeText, badgeDisplay, listDisplay,
                        noMessagesDisplay, listCards, toasts, timerVars>>
    /\ ev' = IF confirmed THEN "clearAll" ELSE "clearAllDeclined"
    /\ arg' = <<>>
    /\ UNCHANGED <<now, ticks, loads, alerts, themeVars, clockVars, tabVars, visitVars, galleryVars, debounceHist, formVars,
                   adminVisible, adminDisplay>>

(***************************************************************************)
(* Two tabs of the same origin.  They run the same script on the same      *)
(* store without any lock, so one tab can access the store between a       *)
(* getItem of the other and the setItem that follows it.  Only the tabs'   *)
(* accesses to the store are modelled, not their pages.                    *)
(***************************************************************************)
\* The form tab t submits.
TabForm(t) ==
    [name    |-> IF t = 1 THEN <<"A", "n", "a">> ELSE <<"R", "u", "i">>,
     email   |-> <<"a", "@", "b", ".", "c">>,
     phone   |-> <<>>,
     subject |-> <<"o", "u", "t", "r", "o">>,
     message |-> [i \in 1..10 |-> "x"]]

\* Tab t: the getItem of getVisitCount in incrementVisitCount (key "visit")
\* or of saveMessage (key "save").
TabGetItem(t, key) ==
    /\ tabPc[t] \notin {"visit", "save"}
    /\ IF key = "visit"
       THEN loads < MaxReloads
       ELSE Len(ReadMessages(lsMessages)) < MaxMsgs
    /\ tabPc' = [tabPc EXCEPT ![t] = key]
    /\ tabRead' = [tabRead EXCEPT ![t] = IF key = "visit" THEN lsVisitCount ELSE lsMessages]
    /\ ev' = "tabGet"
    /\ arg' = t
    /\ UNCHANGED <<now, ticks, loads, alerts, themeVars, clockVars, visitVars, pageVars, lsMessages>>

\* Tab t: the setItem calls that follow it.
TabSetItem(t) ==
    /\ tabPc[t] \in {"visit", "save"}
    /\ IF tabPc[t] = "visit"
       THEN /\ lsVisitCount' = IncrementVisitCount(tabRead[t], now).visitCount
            /\ lsLastVisit' = IncrementVisitCount(tabRead[t], now).lastVisit
            /\ loads' = loads + 1
            /\ UNCHANGED lsMessages
       ELSE /\ lsMessages' = SaveMessage(tabRead[t], TabForm(t), now)
            /\ UNCHANGED <<lsVisitCount, lsLastVisit, loads>>
    /\ tabPc' = [tabPc EXCEPT ![t] = IF tabPc[t] = "visit" THEN "visited" ELSE "saved"]
    /\ ev' = IF tabPc[t] = "visit" THEN "tabVisit" ELSE "tabSave"
    /\ arg' = t
    /\ UNCHANGED <<now, ticks, alerts, themeVars, clockVars, tabRead, visitCountEl, lastVisitEl,
                   pageVars>>

(***************************************************************************)
(* Inputs.                                                                 *)
(***************************************************************************)
\* Time between two visits.
VisitDeltas == {30 * Second, 90 * Second, 2 * Hour, Day}

\* Time between two visits, on each side of the limits of formatLastVisit.
ElapsedTimes == {Minute - 1, Minute, Hour - 1, Hour, Day - 1, Day}

\* Arguments of openModal: no project, the first and the last project, no
\* project.
ModalIds == {0, 1, Len(projects), Len(projects) + 1}

\* Time between a toast's appearance and a click on its close button.
ToastDeltas == {100, ToastDuration - 100}

\* Time between two keystrokes.
TypingDeltas == {100, DebounceDelay}

\* Search box contents.
Queries ==
    { <<>>, <<" ">>,
      <<"a", "p", "i">>,
      <<" ", "A", "P", "P">>,
      <<"l", "o", "j", "a", " ">>,
      <<"L", "o", "g", "o">>,
      <<"x", "y", "z">> }

\* Form field contents.
Text10 == [i \in 1..10 |-> "x"]
FieldInputs ==
    [name    |-> {<<>>, <<"A", "n", "a">>},
     email   |-> {<<"a", "@", "b", ".", "c">>},
     phone   |-> {<<"9", "1", "2", "3", "4", "5", "6", "7", "8">>},
     subject |-> {<<"o", "u", "t", "r", "o">>},
     message |-> {Text10}]

\* Form field contents on each side of every validation rule.
Text9 == [i \in 1..9 |-> "x"]
Text500 == [i \in 1..500 |-> "x"]
Text501 == [i \in 1..501 |-> "x"]
ValidationInputs ==
    [name    |-> {<<>>, <<"A", "l">>, <<"A", "n", "a">>, <<"A", "n", "4">>},
     email   |-> {<<>>, <<"a", "@", "b", ".", "c">>, <<"a", "@", "b">>},
     phone   |-> {<<>>, <<"1", "2", "3", "4", "5">>},
     subject |-> {<<>>, <<"o", "u", "t", "r", "o">>},
     message |-> {<<>>, Text9, Text501, Append(Text500, " ")}]

(***************************************************************************)
(* Specifications.                                                         *)
(***************************************************************************)
\* The visit counter across page loads.
NextVisit ==
    \/ PageLoad({"all"})
    \/ \E d \in VisitDeltas : Tick(d)
    \/ \E confirmed \in BOOLEAN : ResetVisitCounter(confirmed)

SpecVisit == Init /\ [][NextVisit]_vars

\* Two visits and the time between them.
NextElapsed ==
    \/ loads < MaxReloads /\ PageLoad({"all"})
    \/ \E d \in ElapsedTimes : Tick(d)

SpecElapsed == Init /\ [][NextElapsed]_vars

\* Filtering and searching the gallery of one page.
NextGallery ==
    \/ loads = 0 /\ PageLoad({"all"})
    \/ \E d \in TypingDeltas : Tick(d)
    \/ \E category \in Categories : FilterClick(category)
    \/ \E q \in Queries : SearchInputEvent(q)
    \/ FireSearch
    \/ SearchEscape

SpecGallery == Init /\ [][NextGallery]_vars

\* Submitting the form of one page, the fields edited in any order.
NextSubmit ==
    \/ loads = 0 /\ PageLoad({"all"})
    \/ TickToTimer
    \/ \E f \in FieldSet : \E v \in FieldInputs[f] : FieldInput(f, v)
    \/ SubmitEvent
    \/ \E stored \in BOOLEAN : FireSend(stored)
    \/ FireToastAuto
    \/ FireToastRemove

SpecSubmit == Init /\ [][NextSubmit]_vars

\* The required fields before position i of the form are filled in.
FilledBefore(i) ==
    \A j \in 1..(i - 1) : Fields[j] # "phone" => fieldValue[Fields[j]] # <<>>

\* Sending, storing and deleting messages on one page, the form filled in
\* from its first field to its last.
NextContact ==
    \/ loads = 0 /\ PageLoad({"all"})
    \/ TickToTimer
    \/ \E i \in 1..Len(Fields) : \E v \in FieldInputs[Fields[i]] \ {<<>>} :
           FilledBefore(i) /\ FieldInput(Fields[i], v)
    \/ SubmitEvent
    \/ \E stored \in BOOLEAN : FireSend(stored)
    \/ FireToastAuto
    \/ FireToastRemove
    \/ AdminToggle
    \/ \E i \in 1..MaxMsgs : \E confirmed \in BOOLEAN : DeleteClick(i, confirmed)
    \/ \E confirmed \in BOOLEAN : ClearAllClick(confirmed)

SpecContact == Init /\ [][NextContact]_vars

\* Live validation and the toasts' close buttons.
NextForm ==
    \/ \E f \in FieldSet : FieldBlur(f)
    \/ \E i \in 1..MaxTimers : ToastCloseClick(i)

\* The detail overlay.
NextModal ==
    \/ DocumentEscape
    \/ \E i \in 1..Len(projects) : CardClick(i)
    \/ ModalCloseClick

\* The three actions that ask for confirmation, on one page with messages
\* sent from it.
NextDestructive ==
    \/ loads = 0 /\ PageLoad({"all"})
    \/ TickToTimer
    \/ \E i \in 1..Len(Fields) : \E v \in FieldInputs[Fields[i]] \ {<<>>} :
           FilledBefore(i) /\ FieldInput(Fields[i], v)
    \/ SubmitEvent
    \/ FireSend(TRUE)
    \/ AdminToggle
    \/ \E i \in 1..MaxMsgs : \E confirmed \in BOOLEAN : DeleteClick(i, confirmed)
    \/ \E confirmed \in BOOLEAN : ClearAllClick(confirmed)
    \/ \E confirmed \in BOOLEAN : ResetVisitCounter(confirmed)

SpecDestructive == Init /\ [][NextDestructive]_vars

\* Typing in and leaving the fields of the form of one page.
NextValidate ==
    \/ loads = 0 /\ PageLoad({"all"})
    \/ \E f \in FieldSet : \E v \in ValidationInputs[f] : FieldInput(f, v)
    \/ \E f \in FieldSet : FieldBlur(f)

SpecValidate == Init /\ [][NextValidate]_vars

\* Typing in, leaving and submitting the form of one page; a field is left
\* right after it was typed in and the submit button is clicked when enabled.
NextEnablement ==
    \/ loads = 0 /\ PageLoad({"all"})
    \/ TickToTimer
    \/ \E f \in FieldSet : \E v \in FieldInputs[f] : FieldInput(f, v)
    \/ \E f \in FieldSet : ev = "input" /\ arg = f /\ FieldBlur(f)
    \/ ~submitDisabled /\ SubmitEvent
    \/ \E stored \in BOOLEAN : FireSend(stored)

SpecEnablement == Init /\ [][NextEnablement]_vars

\* The toasts of one page: submits of the empty form show them.
NextToast ==
    \/ loads = 0 /\ PageLoad({"all"})
    \/ \E d \in ToastDeltas : Tick(d)
    \/ AwaitTimer
    \/ SubmitEvent
    \/ \E i \in 1..MaxTimers : ToastCloseClick(i)
    \/ FireToastAuto
    \/ FireToastRemove

\* Time passes and due timer callbacks run.
SpecToast ==
    /\ Init /\ [][NextToast]_vars
    /\ WF_vars(AwaitTimer) /\ WF_vars(FireToastAuto) /\ WF_vars(FireToastRemove)

\* The detail overlay over the filtered gallery of one page.
NextOverlay ==
    \/ loads = 0 /\ PageLoad({"all"})
    \/ \E category \in Categories : FilterClick(category)
    \/ \E i \in 1..Len(projects) : CardClick(i)
    \/ \E projectId \in ModalIds : OpenModalCall(projectId)
    \/ ModalCloseClick
    \/ DocumentEscape
    \/ SearchEscape

SpecOverlay == Init /\ [][NextOverlay]_vars

\* The theme across page loads and changes of the system's colour scheme.
NextTheme ==
    \/ PageLoad({"all"})
    \/ ThemeToggleClick
    \/ SystemSchemeChange

SpecTheme == Init /\ [][NextTheme]_vars

\* Page loads, sending and the admin panel on a store whose messages the
\* page may not have written.
NextStored ==
    \/ loads < MaxReloads /\ PageLoad({"all"})
    \/ TickToTimer
    \/ \E i \in 1..Len(Fields) : \E v \in FieldInputs[Fields[i]] \ {<<>>} :
           FilledBefore(i) /\ FieldInput(Fields[i], v)
    \/ SubmitEvent
    \/ FireSend(TRUE)
    \/ AdminToggle

SpecStored == InitStored /\ [][NextStored]_vars

\* Page loads and the clock format on a store whose visit count and clock
\* format the page may not have written.
NextPrefs ==
    \/ PageLoad({"all"})
    \/ FormatToggleClick
    \/ \E confirmed \in BOOLEAN : ResetVisitCounter(confirmed)

SpecPrefs == InitPrefs /\ [][NextPrefs]_vars

\* Two tabs: visits and sends of both.
NextTabs ==
    \/ Tick(SendDelay)
    \/ \E t \in Tabs : \E key \in {"visit", "save"} : TabGetItem(t, key)
    \/ \E t \in Tabs : TabSetItem(t)

SpecTabs == Init /\ [][NextTabs]_vars

\* Instants of the day a page is opened at: every hour, with the seconds one
\* and two before a change of minute and the minute before a change of hour.
ClockTimes ==
    {h * Hour + m * Minute + sec * Second : h \in 0..23, m \in {7, 59}, sec \in {8, 58}}

InitClock ==
    /\ \E start \in ClockTimes : InitPageAt(start)
    /\ lsTheme = Null
    /\ lsClockFormat = Null
    /\ lsVisitCount = Null
    /\ lsLastVisit = Null
    /\ lsMessages = Null

\* The clock of a page and its format button.
NextClock ==
    \/ loads < MaxReloads /\ PageLoad({"all"})
    \/ FormatToggleClick
    \/ ClockWait
    \/ ClockTick

SpecClock == InitClock /\ [][NextClock]_vars

\* Message texts on each side of the character counter's thresholds.
Text400 == [i \in 1..400 |-> "x"]
Text401 == [i \in 1..401 |-> "x"]
CounterInputs ==
    [name    |-> {<<"A", "n", "a">>},
     email   |-> {<<"a", "@", "b", ".", "c">>},
     phone   |-> {<<>>},
     subject |-> {<<"o", "u", "t", "r", "o">>},
     message |-> {Text10, Text400, Text401, Text500, Text501}]

\* The character counter of one page: messages of every counter state typed
\* and sent, the form filled in from its first field to its last.
NextCounter ==
    \/ loads = 0 /\ PageLoad({"all"})
    \/ TickToTimer
    \/ \E i \in 1..Len(Fields) : \E v \in CounterInputs[Fields[i]] :
           FilledBefore(i) /\ FieldInput(Fields[i], v)
    \/ SubmitEvent
    \/ FireSend(TRUE)

SpecCounter == Init /\ [][NextCounter]_vars

\* Everything the page does.
Next ==
    \/ NextVisit \/ NextGallery \/ NextModal \/ NextSubmit \/ NextContact \/ NextForm
    \/ NextTheme \/ NextValidate \/ NextDestructive \/ NextEnablement \/ NextToast
    \/ NextOverlay \/ NextStored \/ NextPrefs \/ NextElapsed \/ NextTabs
    \/ NextCounter \/ NextClock

Spec == Init /\ [][Next]_vars

(***************************************************************************)
(* Properties.                                                             *)
(***************************************************************************)
Messages == ReadMessages(lsMessages)

\* C1: a page load renders the last-visit text from the lastVisit stored
\* before the load, then stores the incremented count and the load's time,
\* then shows the new count; on an empty store the text is the first-visit
\* message and the count shown is 1.
C1_LoadOrder ==
    [][ev' = "load" =>
         /\ lastVisitEl' = FormatLastVisit(lsLastVisit, now)
         /\ lsLastVisit # Null => lastVisitEl' # FirstVisitMsg
         /\ lsVisitCount' # Null /\ lsLastVisit' = Some(now)
         /\ visitCountEl' = Get(lsVisitCount')
         /\ (lsVisitCount = Null /\ lsLastVisit = Null) =>
                /\ lastVisitEl' = FirstVisitMsg
                /\ visitCountEl' = <<"1">>]_vars

\* A load on an empty store has shown the first-visit message and count 1.
C1_Witness ==
    /\ ev = "load"
    /\ lastVisitEl = FirstVisitMsg
    /\ visitCountEl = <<"1">>
    /\ lsLastVisit = Some(now)

\* C9: from one state to the next the stored visit count never decreases,
\* except when a confirmed reset removes it.
C9_CountMonotone ==
    [][\/ Get(GetVisitCount(lsVisitCount')) >= Get(GetVisitCount(lsVisitCount))
       \/ ev' = "reset" /\ lsVisitCount' = Null]_vars

\* Ten loads without a reset have counted up to 10.
C9_Witness == ev = "load" /\ lsVisitCount = Some(<<"1", "0">>)

\* C10: a page load increments the stored count exactly once (to 1 on an
\* empty store), stores the load's time as lastVisit and shows the stored
\* count.
C10_LoadIncrementsOnce ==
    [][ev' = "load" =>
         /\ Get(GetVisitCount(lsVisitCount')) = Get(GetVisitCount(lsVisitCount)) + 1
         /\ lsVisitCount = Null => lsVisitCount' = Some(<<"1">>)
         /\ lsLastVisit' = Some(now')
         /\ visitCountEl' = Get(lsVisitCount')]_vars

\* The third load of a store that was never reset shows 3.
C10_Witness ==
    /\ ev = "load"
    /\ loads = 3
    /\ lsVisitCount = Some(<<"3">>)
    /\ visitCountEl = <<"3">>

\* The last call of the current burst of debounced calls.
LastCall == Get(dbLast)

\* C3: a burst of debounced calls with no gap of 280 ms or more runs the
\* wrapped function exactly once, 280 ms after the burst's last call and
\* with that call's arguments; every call restarts the timer.
C3_DebounceOnce ==
    dbLast # Null =>
        /\ Len(dbExec) <= 1
        /\ \A i \in 1..Len(dbExec) :
               /\ dbExec[i].q = LastCall.q
               /\ dbExec[i].at = LastCall.t + 280
        /\ now < LastCall.t + 280 => dbExec = <<>>
        /\ (now >= LastCall.t + 280 /\ ~TimerDue) => Len(dbExec) = 1
        /\ \A i \in 1..Len(timers) :
               timers[i].kind = "search" =>
                   /\ timers[i].due = LastCall.t + 280
                   /\ timers[i].args = LastCall.q
                   /\ timers[i].id = timeout

\* A burst of two calls 100 ms apart has run the function once, 280 ms
\* after the second call.
C3_Witness ==
    /\ dbLast # Null
    /\ dbCount = 2
    /\ Len(dbExec) = 1
    /\ dbExec[1].at = 380
    /\ LastCall.t = 100

\* t occurs in s as a contiguous run of characters.
Contains(s, t) ==
    \E i \in 0..(Len(s) - Len(t)) : SubSeq(s, i + 1, i + Len(t)) = t

\* The project numbered id is shown in the grid.
Shown(id) == \E i \in 1..Len(grid) : grid[i] = id

\* The grid shows projects in the order of the projects array, none twice.
GridInArrayOrder ==
    \A i, j \in 1..Len(grid) :
        i < j => \E k, l \in 1..Len(projects) :
                     k < l /\ projects[k].id = grid[i] /\ projects[l].id = grid[j]

\* C4: after searchProjects runs with a query, the grid shows exactly the
\* projects of the current category ("all" being every project) whose
\* lower-cased title, description or any tag contains the trimmed,
\* lower-cased query, in array order; a query that trims to nothing shows
\* the whole current category.
C4_SearchResult ==
    ev \in {"search", "searchEscape"} =>
        LET term == Trim(ToLowerCase(arg))
            hit(p) == \/ term = <<>>
                      \/ Contains(ToLowerCase(p.title), term)
                      \/ Contains(ToLowerCase(p.description), term)
                      \/ \E t \in 1..Len(p.tags) : Contains(ToLowerCase(p.tags[t]), term)
        IN  /\ \A k \in 1..Len(projects) :
                   Shown(projects[k].id) <=>
                       /\ currentCategory = "all" \/ projects[k].category = currentCategory
                       /\ hit(projects[k])
            /\ GridInArrayOrder
            /\ noResults = IF grid = <<>> THEN "block" ELSE "none"

\* The search "api" in the category "web" shows projects 1 and 5 and not
\* the mobile project 4 that also matches.
C4_Witness ==
    /\ ev = "search"
    /\ arg = <<"a", "p", "i">>
    /\ currentCategory = "web"
    /\ grid = <<1, 5>>

\* C5: after filterProjects(category) the grid shows exactly the projects
\* of that category in array order (every project for "all"), the category
\* is the current one and the search box is empty.
C5_FilterResult ==
    ev = "filter" =>
        /\ currentCategory = arg
        /\ searchInput = <<>>
        /\ \A k \in 1..Len(projects) :
               Shown(projects[k].id) <=> (arg = "all" \/ projects[k].category = arg)
        /\ GridInArrayOrder
        /\ arg = "all" => Len(grid) = Len(projects)

\* Filtering by "design" shows projects 3 and 6 with an empty search box.
C5_Witness ==
    /\ ev = "filter"
    /\ arg = "design"
    /\ grid = <<3, 6>>
    /\ searchInput = <<>>
    /\ dbLast # Null

\* C2 as stated: every handling of a submit event, the early validation
\* failure included, ends with the loading state removed and the submit
\* control enabled exactly when silent validation passes.
C2_CleanupOnEveryPath ==
    ev \in {"sendOk", "sendFailed", "submitInvalid"} =>
        /\ ~submitLoading
        /\ submitDisabled = ~validateForm(fieldValue)

\* C2: a handling that passed validation ends, when its send completes or
\* fails, with the loading state removed and the submit control enabled
\* exactly when silent validation passes; a handling that fails validation
\* returns before the try block and leaves the control's disabled flag and
\* loading state as they were.
C2_CleanupAfterSend ==
    [][/\ ev' \in {"sendOk", "sendFailed"} =>
              /\ ~submitLoading'
              /\ submitDisabled' = ~validateForm(fieldValue')
       /\ ev' = "submitStart" => submitLoading' /\ submitDisabled'
       /\ ev' = "submitInvalid" =>
              /\ ~validateForm(fieldValue)
              /\ UNCHANGED <<submitDisabled, submitLoading, lsMessages>>]_vars

\* A send that failed has left the still valid form with an enabled, idle
\* submit control.
C2_Witness ==
    /\ ev = "sendFailed"
    /\ validateForm(fieldValue)
    /\ ~submitLoading
    /\ ~submitDisabled

\* C6: the stored list is newest-first; each saveMessage puts the new
\* message at index 0 and leaves the earlier messages after it, unchanged
\* and in their order.
C6_NewestFirst ==
    /\ [](\A i, j \in 1..Len(Messages) : i < j => Messages[i].date >= Messages[j].date)
    /\ [][ev' = "sendOk" =>
            LET old == ReadMessages(lsMessages)
                new == ReadMessages(lsMessages')
            IN  /\ Len(new) = Len(old) + 1
                /\ new[1].id = now /\ new[1].date = now /\ ~new[1].read
                /\ new[1].name = fieldValue["name"]
                /\ Tail(new) = old]_vars

\* Two saves in sequence: the second message is at index 0, the first at
\* index 1.
C6_Witness ==
    /\ ev = "sendOk"
    /\ Len(Messages) = 2
    /\ Messages[1].id = now
    /\ Messages[2].date < Messages[1].date

\* C7: a confirmed deleteMessage(id) removes exactly one entry of the stored
\* list, the one whose id matches, and leaves the others unmodified and in
\* their order.
C7_DeleteExactlyOne ==
    [][ev' = "delete" =>
         LET old == ReadMessages(lsMessages)
             new == ReadMessages(lsMessages')
         IN  \E k \in 1..Len(old) :
                 /\ old[k].id = arg'
                 /\ new = SubSeq(old, 1, k - 1) \o SubSeq(old, k + 1, Len(old))]_vars

\* C8: no two messages of the stored list have the same id.
C8_UniqueIds ==
    \A i, j \in 1..Len(Messages) : i # j => Messages[i].id # Messages[j].id

\* The message validateField is to return for field f holding v: that of
\* the first check that fails, "" when none does.
FirstFailure(f, v) ==
    LET rules == validationRules[f]
        t     == Trim(v)
    IN  CASE rules.required /\ t = <<>> -> rules.messages.required
          [] ~(rules.required /\ t = <<>>)
             /\ rules.minLength # 0 /\ Len(t) < rules.minLength -> rules.messages.minLength
          [] ~(rules.required /\ t = <<>>)
             /\ ~(rules.minLength # 0 /\ Len(t) < rules.minLength)
             /\ rules.maxLength # 0 /\ Len(t) > rules.maxLength -> rules.messages.maxLength
          [] ~(rules.required /\ t = <<>>)
             /\ ~(rules.minLength # 0 /\ Len(t) < rules.minLength)
             /\ ~(rules.maxLength # 0 /\ Len(t) > rules.maxLength)
             /\ rules.pattern # "" /\ t # <<>> /\ ~PatternTest(rules.pattern, v)
                 -> rules.messages.pattern
          [] OTHER -> ""

\* C11: validateField checks required, minLength, maxLength, pattern in
\* this order, each only when the field has the rule, and returns invalid
\* with the message of the first check that fails, valid with an empty
\* message when none fails; the feedback of a blur shows that result.
C11_FirstFailingCheck ==
    /\ \A f \in FieldSet :
           LET r == validateField(f, fieldValue[f])
           IN  /\ r.message = FirstFailure(f, fieldValue[f])
               /\ r.valid <=> r.message = ""
    /\ validateField("name", <<>>).message = "Por favor, introduz o teu nome"
    /\ validateField("name", <<"A", "l">>).message
           = "O nome deve ter pelo menos 3 caracteres"
    /\ validateField("message", Text501).message
           = "A mensagem nao pode ter mais de 500 caracteres"
    /\ ev = "blur" =>
           /\ errorText[arg] = FirstFailure(arg, fieldValue[arg])
           /\ groupClass[arg] = IF errorText[arg] = "" THEN "valid" ELSE "invalid"

\* Leaving the name field holding 'Al' shows the minLength message, not
\* the pattern's.
C11_Witness ==
    /\ ev = "blur"
    /\ arg = "name"
    /\ fieldValue["name"] = <<"A", "l">>
    /\ errorText["name"] = "O nome deve ter pelo menos 3 caracteres"
    /\ groupClass["message"] = "invalid"
    /\ fieldValue["message"] = Text501

\* C12: when the user declines the confirmation of the visit reset, of a
\* message's deletion or of the clearing of all messages, the store and the
\* displays stay as they were and no toast or alert is shown.
C12_DeclineChangesNothing ==
    [][ev' \in {"resetDeclined", "deleteDeclined", "clearAllDeclined"} =>
         UNCHANGED <<lsVisitCount, lsLastVisit, lsMessages, lsTheme, visitCountEl,
                     lastVisitEl, adminVars, toasts, timers, alerts>>]_vars

\* A deletion was declined while the store holds a message and the counter
\* a visit.
C12_Witness ==
    /\ ev = "deleteDeclined"
    /\ Len(Messages) = 1
    /\ listCards # <<>>
    /\ lsVisitCount = Some(<<"1">>)
    /\ Len(toasts) = 1

\* C13: whenever the message field holds more than 500 characters, the
\* submit button is disabled once the handlers of the keystroke have run,
\* whatever the other fields hold.
C13_LongMessageDisablesSubmit ==
    (loads > 0 /\ Len(fieldValue["message"]) > 500) => submitDisabled

\* C14: whenever no send is pending on the loaded page, the submit button
\* is enabled exactly when all five fields pass validateField on the values
\* they hold.
C14_EnabledIffAllValid ==
    (loads > 0 /\ PendingSends = 0) =>
        (~submitDisabled <=> \A f \in FieldSet : validateField(f, fieldValue[f]).valid)

\* After a blur, nothing being sent, the button is enabled on a valid form
\* whose optional phone field is empty.
C14_Witness ==
    /\ ev = "blur"
    /\ PendingSends = 0
    /\ ~submitDisabled
    /\ fieldValue["phone"] = <<>>
    /\ Len(Messages) = 1

\* The number of messages of a stored list that are not read.
Unread(stored) == Cardinality({i \in 1..Len(ReadMessages(stored)) : ~ReadMessages(stored)[i].read})

\* C15: when a send completes successfully, exactly one new message is
\* stored, at the head of the list and unread, a success toast is shown,
\* every field is empty, no form group is marked valid or invalid, the
\* character counter shows 0 and the unread badge shows the new number of
\* unread messages.
C15_SendSuccess ==
    [][ev' = "sendOk" =>
         /\ Len(ReadMessages(lsMessages')) = Len(ReadMessages(lsMessages)) + 1
         /\ ~ReadMessages(lsMessages')[1].read
         /\ ReadMessages(lsMessages')[1].message = fieldValue["message"]
         /\ \A i \in 1..Len(ReadMessages(lsMessages)) :
                ReadMessages(lsMessages')[i + 1] = ReadMessages(lsMessages)[i]
         /\ Len(toasts') = Len(toasts) + 1
         /\ toasts'[Len(toasts')].type = "success"
         /\ \A f \in FieldSet : fieldValue'[f] = <<>> /\ groupClass'[f] = ""
         /\ charCount' = <<"0">>
         /\ Unread(lsMessages') = Unread(lsMessages) + 1
         /\ badgeText' = NatToStr(Unread(lsMessages'))
         /\ badgeDisplay' = "flex"]_vars

\* A send completed while the admin panel had marked the earlier message
\* as read: the badge shows 1 of 2 messages.
C15_Witness ==
    /\ ev = "sendOk"
    /\ Len(Messages) = 2
    /\ badgeText = <<"1">>
    /\ badgeDisplay = "flex"
    /\ fieldValue = EmptyForm
    /\ charCount = <<"0">>
    /\ \E i \in 1..Len(toasts) : toasts[i].type = "success"

\* The toasts of the container with their places: a toast is in the
\* container at most once.
ToastIds == {toasts[i].id : i \in 1..Len(toasts)}

\* C16: whatever the order and timing of clicks on its close button and of
\* its auto-dismiss timer, a toast is removed from the container no later
\* than 3000 + 350 ms after it was shown, is not shown again, and a removal
\* of a toast already removed changes nothing.
C16_ToastRemoved ==
    /\ [](\A i \in 1..Len(toasts) :
              \/ now < toasts[i].shown + 3000 + 350
              \/ now = toasts[i].shown + 3000 + 350 /\ TimerDue)
    /\ [](\A i, j \in 1..Len(toasts) : i # j => toasts[i].id # toasts[j].id)
    /\ [][/\ ev' # "load" =>
                \A id \in 1..(nextTimerId - 1) : id \notin ToastIds =>
                    \A k \in 1..Len(toasts') : toasts'[k].id # id
          /\ (ev' \in {"toastRemove", "toastAuto"} /\ arg' \notin ToastIds) =>
                toasts' = toasts]_vars
    /\ \A id \in 1..MaxTimers : (id \in ToastIds) ~> (id \notin ToastIds)

\* The auto-dismiss timer of a toast ran during the fade-out a click on the
\* close button started, and the second removal found the toast gone.
C16_Witness ==
    /\ ev = "toastRemove"
    /\ arg = 1
    /\ toasts = <<>>
    /\ timers = <<>>
    /\ nextTimerId = 4
    /\ now = 3000 + 350

\* projectId is the id of a project of the list.
IsProjectId(projectId) == \E k \in 1..Len(projects) : projects[k].id = projectId

\* C17: page scroll is blocked exactly when the detail overlay is open;
\* openModal of a project's id opens the overlay on that project and blocks
\* scroll, closeModal (close button, overlay background, Escape) closes it
\* and restores scroll, changes nothing on a closed overlay, and openModal
\* of an id of no project changes nothing.
C17_ScrollBlockedIffOpen ==
    /\ [](modalActive <=> bodyOverflow = "hidden")
    /\ [](~modalActive => bodyOverflow = "")
    /\ [][/\ (ev' \in {"cardClick", "openModal"} /\ IsProjectId(arg')) =>
                modalActive' /\ modalBody' = arg' /\ bodyOverflow' = "hidden"
          /\ (ev' = "openModal" /\ ~IsProjectId(arg')) =>
                UNCHANGED <<modalActive, modalBody, bodyOverflow>>
          /\ ev' \in {"modalClose", "escape", "searchEscape"} =>
                /\ ~modalActive' /\ bodyOverflow' = ""
                /\ ~modalActive => UNCHANGED <<modalActive, modalBody, bodyOverflow>>]_vars

\* Escape closed the overlay that showed the last project, and scroll is
\* restored.
C17_Witness ==
    /\ ev = "escape"
    /\ modalBody = Len(projects)
    /\ ~modalActive
    /\ bodyOverflow = ""

\* C18: after any filter clicks, searches and Escape presses exactly one
\* filter button is active, the one clicked last, and its category is the
\* current category the search uses.
C18_OneActiveFilter ==
    /\ [](loads > 0 => Cardinality(activeFilters) = 1 /\ activeFilters = {currentCategory})
    /\ [][/\ ev' = "filter" => activeFilters' = {arg'} /\ currentCategory' = arg'
          /\ ev' \in {"searchInput", "search", "searchEscape", "tick"} =>
                UNCHANGED <<activeFilters, currentCategory>>]_vars

\* A search ran after the click on the 'mobile' button, which is still the
\* only active one.
C18_Witness ==
    /\ ev = "search"
    /\ arg # <<>>
    /\ activeFilters = {"mobile"}
    /\ currentCategory = "mobile"

\* C19: opening the admin panel sets read on every stored message and
\* changes nothing else of the list (number, order, ids, other fields),
\* after which the unread badge is hidden; closing the panel leaves the
\* store as it was.
C19_OpenMarksAllRead ==
    [][/\ ev' = "adminOpen" =>
            LET old == ReadMessages(lsMessages)
                new == ReadMessages(lsMessages')
            IN  /\ Len(new) = Len(old)
                /\ \A i \in 1..Len(old) :
                       /\ new[i].read
                       /\ new[i].id = old[i].id
                       /\ new[i].name = old[i].name
                       /\ new[i].email = old[i].email
                       /\ new[i].phone = old[i].phone
                       /\ new[i].subject = old[i].subject
                       /\ new[i].message = old[i].message
                       /\ new[i].date = old[i].date
                /\ badgeDisplay' = "none"
                /\ badgeText' = <<"0">>
                /\ adminDisplay' = "block"
       /\ ev' = "adminClose" => lsMessages' = lsMessages /\ adminDisplay' = "none"]_vars

\* The panel was opened on two unread messages, one of them with a phone
\* number: both are read and the badge is hidden.
C19_Witness ==
    /\ ev = "adminOpen"
    /\ Len(Messages) = 2
    /\ \A i \in 1..Len(Messages) : Messages[i].read
    /\ Messages[1].id > Messages[2].id
    /\ \E i \in 1..Len(Messages) : Messages[i].phone # Null
    /\ badgeDisplay = "none"
    /\ totalEl = <<"2">>

\* C20: after theme toggles the stored theme is 'dark' exactly when the
\* body's dark-mode flag is set, a toggle flips the flag (so two toggles
\* restore it) and stores it, a page load applies the stored theme whatever
\* the system's colour scheme is, and with nothing stored it applies the
\* system's colour scheme and stores nothing.
C20_ThemePersisted ==
    /\ [](loads > 0 /\ lsTheme # Null =>
              /\ Get(lsTheme) \in {"dark", "light"}
              /\ darkMode <=> Get(lsTheme) = "dark")
    /\ [][/\ ev' = "themeToggle" =>
                /\ darkMode' = ~darkMode
                /\ lsTheme' = <<IF darkMode' THEN "dark" ELSE "light">>
                /\ prefersDark' = prefersDark
          /\ ev' = "load" =>
                /\ lsTheme' = lsTheme
                /\ lsTheme # Null => (darkMode' <=> lsTheme = <<"dark">>)
                /\ lsTheme = Null => darkMode' = prefersDark
          /\ ev' = "systemScheme" => UNCHANGED <<lsTheme, darkMode>>]_vars

\* A page loaded light from the stored 'light' although the system prefers
\* dark, after two loads and toggles.
C20_Witness ==
    /\ ev = "load"
    /\ loads >= 2
    /\ lsTheme = <<"light">>
    /\ prefersDark
    /\ ~darkMode

\* C21: a 'contactMessages' text that is absent or is not JSON is read as the
\* empty list: the page load shows no message, a send stores its message as
\* the only one, opening the admin panel stores the empty list, and none of
\* the three ends in an exception.
C21_MalformedAsEmpty ==
    [][/\ lsMessages \in {Null, NotJson} /\ ev' \in {"load", "loadThrew"} =>
             /\ ev' = "load"
             /\ totalEl' = <<"0">>
             /\ badgeDisplay' = "none"
             /\ listDisplay' = "none"
             /\ noMessagesDisplay' = "block"
       /\ lsMessages \in {Null, NotJson} /\ ev' \in {"sendOk", "sendFailed"} =>
             /\ ev' = "sendOk"
             /\ lsMessages' = SaveMessage(Null, fieldValue, now)
       /\ lsMessages \in {Null, NotJson} /\ ev' \in {"adminOpen", "adminOpenThrew"} =>
             /\ ev' = "adminOpen"
             /\ lsMessages' = Some(JsonStringify(<<>>))
             /\ badgeDisplay' = "none"]_vars

\* C22: getVisitCount gives 0 for a 'visitCount' text that is absent or that
\* parseInt does not read as a number, and a page load on such a store
\* leaves the stored count 1.
C22_NonNumericCountsAsZero ==
    /\ [](lsVisitCount = Null \/ ParseInt(Get(lsVisitCount)) = NaN =>
              GetVisitCount(lsVisitCount) = Num(0))
    /\ [][/\ ev' = "load"
          /\ lsVisitCount = Null \/ ParseInt(Get(lsVisitCount)) = NaN
          => lsVisitCount' = Some(<<"1">>)]_vars

\* C23: a page load leaves the clock in the 12h format when the stored
\* 'clockFormat' is '12' and in the 24h format when it is '24', absent or any
\* other text.
C23_MalformedFormatIs24h ==
    [][ev' = "load" => (is24Hour' <=> lsClockFormat # Some(<<"1", "2">>))]_vars

\* C24: a confirmed reset removes 'visitCount' and 'lastVisit' and shows the
\* count 0 and the first-visit message; the page load that follows it shows
\* the first-visit message and the count 1, and stores the count 1.
C24_ResetToFirstVisit ==
    /\ [][ev' = "reset" =>
             /\ lsVisitCount' = Null
             /\ lsLastVisit' = Null
             /\ visitCountEl' = <<"0">>
             /\ lastVisitEl' = FirstVisitMsg]_vars
    /\ [][/\ loads > 0 /\ lsVisitCount = Null /\ lsLastVisit = Null
          /\ ev' = "load"
          => /\ lastVisitEl' = FirstVisitMsg
             /\ visitCountEl' = <<"1">>
             /\ lsVisitCount' = Some(<<"1">>)]_vars

\* The third load of the page, the first after a reset.
C24_Witness ==
    /\ ev = "load"
    /\ loads = 3
    /\ alerts = 1
    /\ lsVisitCount = Some(<<"1">>)
    /\ visitCountEl = <<"1">>
    /\ lastVisitEl = FirstVisitMsg

\* C25: a page load shows the time since the stored lastVisit: the
\* first-visit message when there is none, 'less than a minute' under one
\* minute, the whole minutes under 60 minutes, the whole hours under 24
\* hours and the whole days from there on, the unit in the singular exactly
\* when the number is 1.
C25_ElapsedBuckets ==
    [][ev' = "load" =>
         IF lsLastVisit = Null THEN lastVisitEl' = FirstVisitMsg
         ELSE LET diff == now - Get(lsLastVisit)
                  unit == IF diff < Hour THEN "minuto"
                          ELSE IF diff < Day THEN "hora" ELSE "dia"
                  n    == IF diff < Hour THEN diff \div Minute
                          ELSE IF diff < Day THEN diff \div Hour ELSE diff \div Day
              IN  IF diff < Minute THEN lastVisitEl' = LessThanMinuteMsg
                  ELSE /\ lastVisitEl'.text = "Ha"
                       /\ lastVisitEl'.unit = unit
                       /\ lastVisitEl'.n = n
                       /\ lastVisitEl'.suffix = "" <=> n = 1
                       /\ lastVisitEl'.suffix \in {"", "s"}]_vars

\* The second visit, one hour after the first, shows one hour in the
\* singular.
C25_Witness ==
    /\ ev = "load"
    /\ loads = 2
    /\ now = Hour
    /\ lastVisitEl = [text |-> "Ha", n |-> 1, unit |-> "hora", suffix |-> ""]

\* C26: the phone of every stored message is null or a non-empty string,
\* never the empty string; a send stores its message unread, and the message
\* read back from the store is the message that was built from the form:
\* same id, same read flag, same phone (null for an empty phone field).
C26_StoredMessageRoundTrip ==
    /\ [](\A i \in 1..Len(Messages) :
              LET phone == JsonProperty(Get(lsMessages)[i], "phone")
              IN  /\ phone.type \in {"null", "str"}
                  /\ phone.type = "str" => phone.str # <<>>
                  /\ Messages[i].phone # Some(<<>>))
    /\ [][ev' = "sendOk" =>
             LET m == ReadMessages(lsMessages')[1]
             IN  /\ m.id = now
                 /\ m.read = FALSE
                 /\ m.phone = IF fieldValue["phone"] = <<>> THEN Null
                              ELSE Some(fieldValue["phone"])
                 /\ m = NewMessage(fieldValue, now)]_vars

\* A message sent without a phone has been stored over one sent with a phone.
C26_Witness ==
    /\ ev = "sendOk"
    /\ Len(Messages) = 2
    /\ Messages[1].phone = Null
    /\ Messages[2].phone # Null
    /\ ~Messages[1].read

\* C27: a tab's write stores what the tab read plus its own message (or
\* visit), whatever the other tab stored between the read and the write: a
\* message the other tab saved, or a visit it counted, in between is
\* overwritten.
C27_LastWriteWins ==
    [][\A t \in Tabs :
          /\ ev' = "tabSave" /\ arg' = t =>
                ReadMessages(lsMessages') =
                    <<NewMessage(TabForm(t), now)>> \o ReadMessages(tabRead[t])
          /\ ev' = "tabVisit" /\ arg' = t =>
                /\ lsVisitCount' = Some(NatToStr(Get(GetVisitCount(tabRead[t])) + 1))
                /\ lsLastVisit' = Some(now)]_vars

\* Both tabs counted their visit and saved a message, each from what both
\* had read, and the store counts one visit and holds one message.
C27_Witness ==
    /\ ev = "tabSave"
    /\ loads = 2
    /\ lsVisitCount = Some(<<"1">>)
    /\ \A t \in Tabs : tabPc[t] = "saved" /\ tabRead[t] = Null
    /\ Len(Messages) = 1

\* C28: while a send is in flight the submit button is disabled, whatever
\* is typed in or left in the form meanwhile, and at most one send is in
\* flight.
C28_DisabledWhileSending ==
    /\ PendingSends > 0 => submitDisabled
    /\ PendingSends <= 1

\* C29: every stored message holds field values that pass validateField on
\* all five fields, whatever was typed in the form during the send.
C29_StoredMessagesValid ==
    \A i \in 1..Len(Messages) :
        validateForm([name    |-> Messages[i].name,
                      email   |-> Messages[i].email,
                      phone   |-> IF Messages[i].phone = Null THEN <<>>
                                  ELSE Get(Messages[i].phone),
                      subject |-> Messages[i].subject,
                      message |-> Messages[i].message])

\* C30: whenever no debounced search is pending, the grid shows the result
\* of searching the active category for the text of the search box.
C30_GridMatchesSearchBox ==
    (loads > 0 /\ \A i \in 1..Len(timers) : timers[i].kind # "search") =>
        grid = SearchProjects(searchInput, currentCategory, searchInput).grid

\* C31: a submit event handled while some field fails validation shows one
\* more toast, of type error, marks every field valid or invalid with the
\* error text of its validation result, starts no send, leaves the loading
\* state as it was and leaves the stored messages unchanged.
C31_InvalidSubmitStops ==
    [][(ev' \in {"submitInvalid", "submitStart"} /\ ~validateForm(fieldValue)) =>
          /\ ev' = "submitInvalid"
          /\ Len(toasts') = Len(toasts) + 1
          /\ toasts'[Len(toasts')].type = "error"
          /\ \A f \in FieldSet :
                LET result == validateField(f, fieldValue[f])
                IN  /\ groupClass'[f] = IF result.valid THEN "valid" ELSE "invalid"
                    /\ errorText'[f] = IF result.valid THEN "" ELSE result.message
          /\ PendingSends' = PendingSends
          /\ UNCHANGED <<submitLoading, lsMessages, fieldValue>>]_vars

\* A submit with the name missing and the email filled in has marked the
\* one invalid and the other valid, with an error toast and no send.
C31_Witness ==
    /\ ev = "submitInvalid"
    /\ groupClass["name"] = "invalid"
    /\ errorText["name"] # ""
    /\ groupClass["email"] = "valid"
    /\ toasts # <<>>
    /\ toasts[Len(toasts)].type = "error"
    /\ PendingSends = 0
    /\ ~submitLoading

\* C32: a blur on a field marks its group valid or invalid as validateField
\* says; an input event on a field re-marks its group only when the group is
\* already marked, and leaves an unmarked group unmarked; neither changes
\* the mark or the error text of another field.
C32_LiveValidation ==
    [][\A f \in FieldSet :
          (ev' \in {"blur", "input"} /\ arg' = f) =>
             LET result == validateField(f, fieldValue'[f])
                 class  == IF result.valid THEN "valid" ELSE "invalid"
                 error  == IF result.valid THEN "" ELSE result.message
             IN  /\ ev' = "blur" =>
                       /\ groupClass'[f] = class
                       /\ errorText'[f] = error
                       /\ fieldValue' = fieldValue
                 /\ (ev' = "input" /\ groupClass[f] = "") =>
                       /\ groupClass'[f] = ""
                       /\ errorText'[f] = errorText[f]
                 /\ (ev' = "input" /\ groupClass[f] # "") =>
                       /\ groupClass'[f] = class
                       /\ errorText'[f] = error
                 /\ \A g \in FieldSet \ {f} :
                       /\ groupClass'[g] = groupClass[g]
                       /\ errorText'[g] = errorText[g]]_vars

\* The name was blurred empty and then typed in, and is marked valid; the
\* message was typed in, too short, and never blurred, and is unmarked.
C32_Witness ==
    /\ ev = "input"
    /\ groupClass["name"] = "valid"
    /\ fieldValue["message"] = Text9
    /\ groupClass["message"] = ""
    /\ errorText["message"] = ""

\* C33: the silent validateForm of updateSubmitButton, run by an input
\* event on an unmarked field, changes no group's mark or error text and
\* enables the button exactly when each of the five fields passes
\* validateField; the validateForm of a submit takes the valid branch exactly
\* when each of the five fields passes, and marks every group valid when its
\* field passes and invalid when it does not.
C33_SilentAndLoud ==
    [][LET pass(vals) == /\ validateField("name", vals["name"]).valid
                         /\ validateField("email", vals["email"]).valid
                         /\ validateField("phone", vals["phone"]).valid
                         /\ validateField("subject", vals["subject"]).valid
                         /\ validateField("message", vals["message"]).valid
       IN  /\ (ev' = "input" /\ groupClass[arg'] = "") =>
                 /\ groupClass' = groupClass
                 /\ errorText' = errorText
                 /\ submitDisabled' = ~pass(fieldValue')
           /\ ev' \in {"submitInvalid", "submitStart"} =>
                 /\ (ev' = "submitStart") = pass(fieldValue)
                 /\ \A f \in FieldSet :
                       /\ groupClass'[f] \in {"valid", "invalid"}
                       /\ (groupClass'[f] = "valid") =
                              validateField(f, fieldValue[f]).valid]_vars

\* The last field was typed into a form that was never marked: the button is
\* enabled and no group has a mark.
C33_Witness ==
    /\ ev = "input"
    /\ ~submitDisabled
    /\ ~submitLoading
    /\ \A f \in FieldSet : groupClass[f] = "" /\ validateField(f, fieldValue[f]).valid

\* C34: once a successful send has reset the form, the counter has the
\* class of the length of the message field's text (none up to 400, warning
\* from 401 to 500, error above 500) and shows that length.
C34_CounterAfterReset ==
    [][ev' = "sendOk" =>
         /\ counterClass' = CounterClass(Len(fieldValue'["message"]))
         /\ charCount' = NumToStr(Num(Len(fieldValue'["message"])))]_vars

\* The part of C34 that the code keeps: right after an input event on the
\* message field the counter has the class of the text's length and shows
\* that length.
C34_CounterAfterInput ==
    [][(ev' = "input" /\ arg' = "message") =>
         /\ counterClass' = CounterClass(Len(fieldValue'["message"]))
         /\ charCount' = NumToStr(Num(Len(fieldValue'["message"])))]_vars

\* The list that the handler named by ev passed to renderProjects: a search
\* keeps the current category, a filter click makes its category current.
RenderedList ==
    LET term == Trim(ToLowerCase(arg))
    IN  IF ev = "load" THEN projects
        ELSE IF ev = "filter" THEN CategoryFilter(arg)
        ELSE IF term = <<>> THEN CategoryFilter(currentCategory)
        ELSE SelectSeq(CategoryFilter(currentCategory), LAMBDA p : Matches(p, term))

\* C36: after every call of renderProjects (at load, on a filter click, when
\* a debounced search runs, on Escape in the search box) the grid has one
\* card for each project of the list passed, in the list's order, and no
\* other card, none twice, and the no-results message is displayed exactly
\* when the list is empty.
C36_RenderExactlyList ==
    ev \in {"load", "filter", "search", "searchEscape"} =>
        LET list == RenderedList
        IN  /\ grid = [i \in 1..Len(list) |-> list[i].id]
            /\ \A i, j \in 1..Len(grid) : i # j => grid[i] # grid[j]
            /\ noResults = IF list = <<>> THEN "block" ELSE "none"

\* A search without results in the category "design" has emptied the grid
\* and displays the no-results message.
C36_Witness ==
    /\ ev = "search"
    /\ currentCategory = "design"
    /\ grid = <<>>
    /\ noResults = "block"

\* C35: after startup, a completed send, a confirmed delete, a confirmed
\* clear-all and an opening of the admin panel, the badge shows the number
\* of unread stored messages and is hidden exactly when that number is zero,
\* the total shows the length of the stored list, and the no-messages text
\* is displayed and the list hidden exactly when the stored list is empty.
C35_PanelMatchesStore ==
    ev \in {"load", "sendOk", "delete", "clearAll", "adminOpen"} =>
        /\ badgeText = NumToStr(Num(Unread(lsMessages)))
        /\ (badgeDisplay = "none") = (Unread(lsMessages) = 0)
        /\ (badgeDisplay = "flex") = (Unread(lsMessages) > 0)
        /\ totalEl = NumToStr(Num(Len(Messages)))
        /\ (noMessagesDisplay = "block" /\ listDisplay = "none") = (Messages = <<>>)
        /\ (noMessagesDisplay = "none" /\ listDisplay = "flex") = (Messages # <<>>)
        /\ Messages # <<>> => Len(listCards) = Len(Messages)

\* The last stored message was deleted: the total is 0, the badge is hidden
\* and the no-messages text has replaced the list, whose cards are still in
\* the hidden element.
C35_Witness ==
    /\ ev = "delete"
    /\ Messages = <<>>
    /\ totalEl = <<"0">>
    /\ badgeDisplay = "none"
    /\ noMessagesDisplay = "block"
    /\ listDisplay = "none"
    /\ listCards # <<>>

\* C37: a click on the format button flips is24Hour, stores '24' when the
\* new flag is true and '12' when it is false, and shows the clock in the
\* new format at once; a second click right after a first stores the other
\* of the two texts again; once a text is stored it names the format in use;
\* the next page load finds the flag of the last click in the store and sets
\* is24Hour to it.
C37_ToggleFormat ==
    [][/\ ev' = "formatToggle" =>
             /\ is24Hour' = ~is24Hour
             /\ lsClockFormat' = Some(IF is24Hour' THEN <<"2", "4">> ELSE <<"1", "2">>)
             /\ hoursEl' = UpdateClock(now, is24Hour').hours
             /\ minutesEl' = UpdateClock(now, is24Hour').minutes
             /\ secondsEl' = UpdateClock(now, is24Hour').seconds
             /\ ev = "formatToggle" =>
                   /\ lsClockFormat # Null /\ lsClockFormat' # lsClockFormat
                   /\ {lsClockFormat, lsClockFormat'} = {Some(<<"2", "4">>), Some(<<"1", "2">>)}
       /\ (ev' = "load" /\ lsClockFormat # Null) =>
             /\ is24Hour' = (Get(lsClockFormat) = <<"2", "4">>)
             /\ is24Hour' = is24Hour
             /\ lsClockFormat' = lsClockFormat
       /\ (loads' > 0 /\ lsClockFormat' # Null) =>
             lsClockFormat' = Some(IF is24Hour' THEN <<"2", "4">> ELSE <<"1", "2">>)]_vars

\* A page loaded after a click chose the 12-hour format shows 15 h as 03.
C37_Witness ==
    /\ ev = "load"
    /\ loads = 2
    /\ ~is24Hour
    /\ lsClockFormat = Some(<<"1", "2">>)
    /\ GetHours(now) = 15
    /\ hoursEl = <<"0", "3">>

\* The two decimal digits of a number below 100.
TwoDigits(n) ==
    <<SubSeq(<<"0", "1", "2", "3", "4", "5", "6", "7", "8", "9">>, (n \div 10) + 1, (n \div 10) + 1)[1],
      SubSeq(<<"0", "1", "2", "3", "4", "5", "6", "7", "8", "9">>, (n % 10) + 1, (n % 10) + 1)[1]>>

\* C38: every call of updateClock (at load, on a format click, by the
\* interval) at hour h, minute m and second s shows, in the 12-hour format,
\* 12 for h = 0 and h = 12, h for h from 1 to 11 and h - 12 for h above 12,
\* and in the 24-hour format h; hours, minutes and seconds are shown with
\* exactly two digits, a zero in front of a value below 10.
C38_ClockDisplay ==
    [][ev' \in {"load", "formatToggle", "clockTick"} =>
         LET h == (now' \div 3600000) % 24
             m == (now' \div 60000) % 60
             sec == (now' \div 1000) % 60
             shown == IF is24Hour' THEN h
                      ELSE IF h = 0 \/ h = 12 THEN 12
                      ELSE IF h < 12 THEN h
                      ELSE h - 12
         IN  /\ hoursEl' = TwoDigits(shown)
             /\ minutesEl' = TwoDigits(m)
             /\ secondsEl' = TwoDigits(sec)
             /\ Len(hoursEl') = 2 /\ Len(minutesEl') = 2 /\ Len(secondsEl') = 2]_vars

\* The interval shows midnight in the 12-hour format: 12:00:00.
C38_Witness ==
    /\ ev = "clockTick"
    /\ ~is24Hour
    /\ GetHours(now) = 0
    /\ hoursEl = <<"1", "2">>
    /\ minutesEl = <<"0", "0">>
    /\ secondsEl = <<"0", "0">>

====
